---- MODULE Spec2Model ----
(***************************************************************************)
(* A model of lon: the lock data model with the per-source update          *)
(* algorithm (sources.rs), the bot orchestrator and the direct commands    *)
(* (cli.rs), the commit message (commit_message.rs), rev lists (git.rs),   *)
(* the version-1 lock document (lock/v1.rs), the forges that open pull     *)
(* requests (bot/github.rs, bot/forgejo.rs) and the history of an update   *)
(* (git.rs rev_list, http/github.rs compare_commits).                      *)
(*                                                                         *)
(* Revisions, hashes and timestamps are opaque values: a revision is a     *)
(* number, a hash is the record of the inputs the prefetch tool was given. *)
(* Strings built with format! are sequences of their pieces.               *)
(***************************************************************************)
EXTENDS Integers, Sequences, FiniteSets, TLC

\* ------------------------------------------------------------------ bounds

\* Upstream revisions are 1..MaxRev.
MaxRev == 2

\* The registry of a bot run holds the sources 1..MaxSources (sorted by name).
MaxSources == 2

\* A rev list or a commit log holds at most MaxCommits commits.
MaxCommits == 2

\* A commit message holds at most MaxPairs (name, summary) pairs.
MaxPairs == 2

\* ------------------------------------------------------------- primitives

\* Option<&String> revision = None.
NoRev == 0

\* Option<u64> last_modified = None.
NoTime == 0

\* Option<&String> branch = None.
NoBranch == ""

Revs == 1..MaxRev

Branches == {"main", "dev"}

GITHUB_URL == "https://github.com"

\* The repository URL of the modelled Git source.
GitRepoUrl == <<"https://example.org/repo.git">>

\* GitHubSource::url: format!("{GITHUB_URL}/{owner}/{repo}/archive/{revision}.tar.gz")
GitHubSourceUrl(owner, repo, revision) ==
    <<GITHUB_URL, "/", owner, "/", repo, "/archive/", revision, ".tar.gz">>

\* GitHubSource::git_url: format!("{GITHUB_URL}/{owner}/{repo}.git")
GitHubSourceGitUrl(owner, repo) ==
    <<GITHUB_URL, "/", owner, "/", repo, ".git">>

\* nix::prefetch_git: the hash of the content fetched for (url, revision, submodules).
PrefetchGit(url, revision, submodules) ==
    [input |-> url, rev |-> revision, submodules |-> submodules]

\* nix::prefetch_tarball: the hash of the unpacked tarball at url.
PrefetchTarball(url) ==
    [input |-> url, rev |-> NoRev, submodules |-> FALSE]

\* git::get_last_modified: the commit timestamp (%ct) of rev.
GetLastModified(url, rev) == 1000 + rev

\* ------------------------------------------------------ upstream discovery

\* What `git ls-remote --refs url refs/heads/<branch>` can answer for a branch
\* whose tip is `tip`: a failure, no ref, the ref, or two refs.
LsRemoteOutcomes(tip) ==
    { [ok |-> FALSE, refs |-> <<>>],
      [ok |-> TRUE, refs |-> <<>>],
      [ok |-> TRUE, refs |-> <<tip>>],
      [ok |-> TRUE, refs |-> <<tip, (tip % MaxRev) + 1>>] }

\* The outcomes of the external calls of one update/modify call: the lookup's
\* answer, whether the hash computation and the timestamp fetch succeed. A
\* call that is never reached (the hash after a failed lookup, the timestamp
\* after a failed hash) has no outcome to choose.
Envs(tip) ==
    { [ls |-> ls, hashOk |-> TRUE, stampOk |-> TRUE] : ls \in LsRemoteOutcomes(tip) }
    \cup { [ls |-> [ok |-> TRUE, refs |-> <<tip>>], hashOk |-> FALSE, stampOk |-> TRUE],
           [ls |-> [ok |-> TRUE, refs |-> <<tip>>], hashOk |-> TRUE, stampOk |-> FALSE] }

\* find_newest_revision_for_ref taking the first of several refs.
FindNewestRevisionForRefTakesFirst(ls) ==
    IF ~ls.ok THEN [ok |-> FALSE, err |-> "unreachable", rev |-> NoRev]
    ELSE IF Len(ls.refs) = 0 THEN [ok |-> FALSE, err |-> "missing", rev |-> NoRev]
    ELSE [ok |-> TRUE, err |-> "", rev |-> ls.refs[1]]

\* git::find_newest_revision_for_ref
FindNewestRevisionForRef(ls) ==
    IF ~ls.ok THEN [ok |-> FALSE, err |-> "unreachable", rev |-> NoRev]
    ELSE IF Len(ls.refs) = 0 THEN [ok |-> FALSE, err |-> "missing", rev |-> NoRev]
    ELSE IF Len(ls.refs) > 1 THEN [ok |-> FALSE, err |-> "ambiguous", rev |-> NoRev]
    ELSE [ok |-> TRUE, err |-> "", rev |-> ls.refs[1]]

\* git::find_newest_revision adds context to the error only.
FindNewestRevision(ls) == FindNewestRevisionForRef(ls)

\* ------------------------------------------------------------------ Source

\* The result of a call on a source: the source as the call left it, Ok/Err,
\* the Option<UpdateSummary> (some, old_revision, new_revision), and what the
\* call did: the number of newest-revision lookups, hash computations and
\* timestamp fetches, the revision the lookup found and the one lock() got.
CallResult(s, ok, err, some, old, new, lookups, hashes, stamps, newest, lock_rev) ==
    [src |-> s, ok |-> ok, err |-> err, some |-> some,
     old_revision |-> old, new_revision |-> new,
     lookups |-> lookups, hashes |-> hashes, stamps |-> stamps,
     newest |-> newest, lock_rev |-> lock_rev]

\* A call that returned before any external call.
Untouched(s) ==
    CallResult(s, TRUE, "", FALSE, NoRev, NoRev, 0, 0, 0, NoRev, NoRev)

\* GitSource::lock fetching the timestamp of the revision it replaces.
GitSourceLockStaleStamp(s, revision, env) ==
    IF ~env.hashOk \/ ~env.stampOk
    THEN CallResult(s, FALSE, "hash", FALSE, NoRev, NoRev, 0, 1, 0, NoRev, revision)
    ELSE CallResult(
             [s EXCEPT !.revision = revision,
                       !.hash = PrefetchGit(s.url, revision, s.submodules),
                       !.last_modified = GetLastModified(s.url, s.revision)],
             TRUE, "", FALSE, NoRev, NoRev, 0, 1, 1, NoRev, revision)

\* GitSource::lock
GitSourceLock(s, revision, env) ==
    IF ~env.hashOk
    THEN CallResult(s, FALSE, "hash", FALSE, NoRev, NoRev, 0, 1, 0, NoRev, revision)
    ELSE LET s1 == [s EXCEPT !.revision = revision,
                             !.hash = PrefetchGit(s.url, revision, s.submodules)]
         IN  IF ~env.stampOk
             THEN CallResult(s1, FALSE, "last_modified", FALSE, NoRev, NoRev,
                             0, 1, 1, NoRev, revision)
             ELSE CallResult(
                      [s1 EXCEPT !.last_modified = GetLastModified(s.url, revision)],
                      TRUE, "", FALSE, NoRev, NoRev, 0, 1, 1, NoRev, revision)

\* GitHubSource::lock that forgets to store the revision.
GitHubSourceLockKeepsRevision(s, revision, env) ==
    LET new_url == GitHubSourceUrl(s.owner, s.repo, revision)
    IN  IF ~env.hashOk
        THEN CallResult(s, FALSE, "hash", FALSE, NoRev, NoRev, 0, 1, 0, NoRev, revision)
        ELSE CallResult(
                 [s EXCEPT !.hash = PrefetchTarball(new_url), !.url = new_url],
                 TRUE, "", FALSE, NoRev, NoRev, 0, 1, 0, NoRev, revision)

\* GitHubSource::lock
GitHubSourceLock(s, revision, env) ==
    LET new_url == GitHubSourceUrl(s.owner, s.repo, revision)
    IN  IF ~env.hashOk
        THEN CallResult(s, FALSE, "hash", FALSE, NoRev, NoRev, 0, 1, 0, NoRev, revision)
        ELSE CallResult(
                 [s EXCEPT !.revision = revision,
                           !.hash = PrefetchTarball(new_url),
                           !.url = new_url],
                 TRUE, "", FALSE, NoRev, NoRev, 0, 1, 0, NoRev, revision)

\* The part of update() shared by both variants, after the frozen check:
\* look up, compare, lock, summarise.
UpdateWith(s, env, lock) ==
    LET newest == FindNewestRevision(env.ls)
        current_revision == s.revision
    IN  IF ~newest.ok
        THEN CallResult(s, FALSE, newest.err, FALSE, NoRev, NoRev, 1, 0, 0, NoRev, NoRev)
        ELSE IF current_revision = newest.rev
        THEN CallResult(s, TRUE, "", FALSE, NoRev, NoRev, 1, 0, 0, newest.rev, NoRev)
        ELSE IF ~lock.ok
        THEN [lock EXCEPT !.lookups = 1, !.newest = newest.rev]
        ELSE [lock EXCEPT !.lookups = 1, !.newest = newest.rev, !.some = TRUE,
                          !.old_revision = current_revision,
                          !.new_revision = newest.rev]

\* GitSource::update without the frozen check.
GitSourceUpdateIgnoresFrozen(s, env) ==
    UpdateWith(s, env, GitSourceLock(s, FindNewestRevision(env.ls).rev, env))

\* GitSource::update
GitSourceUpdate(s, env) ==
    IF s.frozen
    THEN Untouched(s)
    ELSE UpdateWith(s, env, GitSourceLock(s, FindNewestRevision(env.ls).rev, env))

\* GitHubSource::update
GitHubSourceUpdate(s, env) ==
    IF s.frozen
    THEN Untouched(s)
    ELSE UpdateWith(s, env, GitHubSourceLock(s, FindNewestRevision(env.ls).rev, env))

\* Source::update
SourceUpdate(s, env) ==
    IF s.kind = "Git" THEN GitSourceUpdate(s, env) ELSE GitHubSourceUpdate(s, env)

\* The body of modify(), the same text in both variants: the branch clause,
\* then the revision clause. update's summary is dropped (modify returns ()).
ModifyBranchWithoutUpdate(s, branch, revision, updated) ==
    LET changes == branch # NoBranch /\ s.branch # branch
    IN  Untouched(IF changes THEN [s EXCEPT !.branch = branch] ELSE s)

ModifyBranch(s, branch, revision, updated) ==
    LET changes == branch # NoBranch /\ s.branch # branch
        s1 == IF changes THEN [s EXCEPT !.branch = branch] ELSE s
    IN  IF changes /\ revision = NoRev THEN updated ELSE Untouched(s1)

\* The revision clause without the comparison with the current revision.
ModifyRevisionRelocksAlways(u, revision, locked) ==
    IF ~u.ok
    THEN u
    ELSE IF revision # NoRev
    THEN locked
    ELSE [u EXCEPT !.some = FALSE, !.old_revision = NoRev, !.new_revision = NoRev]

ModifyRevision(u, revision, locked) ==
    IF ~u.ok
    THEN u
    ELSE IF revision # NoRev /\ u.src.revision # revision
    THEN locked
    ELSE [u EXCEPT !.some = FALSE, !.old_revision = NoRev, !.new_revision = NoRev]

\* GitSource::modify
GitSourceModify(s, branch, revision, env) ==
    LET u == ModifyBranch(s, branch, revision,
                          GitSourceUpdate([s EXCEPT !.branch = branch], env))
    IN  ModifyRevision(u, revision, GitSourceLock(u.src, revision, env))

\* GitHubSource::modify
GitHubSourceModify(s, branch, revision, env) ==
    LET u == ModifyBranch(s, branch, revision,
                          GitHubSourceUpdate([s EXCEPT !.branch = branch], env))
    IN  ModifyRevision(u, revision, GitHubSourceLock(u.src, revision, env))

\* Source::modify
SourceModify(s, branch, revision, env) ==
    IF s.kind = "Git"
    THEN GitSourceModify(s, branch, revision, env)
    ELSE GitHubSourceModify(s, branch, revision, env)

\* modify looks the newest revision up only when the branch changes and no
\* revision is given; otherwise there is no lookup whose answer could vary.
ModifyEnvs(s, branch, revision) ==
    IF branch # NoBranch /\ s.branch # branch /\ revision = NoRev
    THEN UNION { {<<tip, env>> : env \in Envs(tip)} : tip \in Revs }
    ELSE { <<NoRev, env>> : env \in {e \in Envs(NoRev) : e.ls.ok /\ Len(e.ls.refs) = 1} }

\* Source::freeze
SourceFreeze(s) == [s EXCEPT !.frozen = TRUE]

\* Source::unfreeze
SourceUnfreeze(s) == [s EXCEPT !.frozen = FALSE]

\* GitSource::new with every external call succeeding: a source locked to rev.
GitSourceNew(branch, rev, submodules, frozen, stamped) ==
    [kind |-> "Git", url |-> GitRepoUrl, owner |-> "", repo |-> "",
     branch |-> branch, revision |-> rev,
     hash |-> PrefetchGit(GitRepoUrl, rev, submodules),
     last_modified |-> IF stamped THEN GetLastModified(GitRepoUrl, rev) ELSE NoTime,
     submodules |-> submodules, frozen |-> frozen]

\* GitHubSource::new with every external call succeeding.
GitHubSourceNew(owner, repo, branch, rev, frozen) ==
    [kind |-> "GitHub", url |-> GitHubSourceUrl(owner, repo, rev),
     owner |-> owner, repo |-> repo, branch |-> branch, revision |-> rev,
     hash |-> PrefetchTarball(GitHubSourceUrl(owner, repo, rev)),
     last_modified |-> NoTime, submodules |-> FALSE, frozen |-> frozen]

\* ------------------------------------------------------------------ state

\* The source API: one Source object and the calls made on it.
VARIABLES
    src,        \* the Source object the calls act on
    call,       \* the last call on src: its arguments, the source before, its result
    prev        \* the call before `call`: what it was and how it ended

srcVars == <<src, call, prev>>

\* A bot run: the checkout, the remote, the forge and the locals of bot().
VARIABLES
    pc,            \* the position in bot() / bot_fallible()
    head,          \* HEAD of the checkout: a branch name or <<"sha", commit>>
    refs,          \* the local branches: name -> commit (NoCommit: no such branch)
    commits,       \* the commits of the repository: id -> parent, lock file, message
    work,          \* lon.lock in the working directory
    remote,        \* the branches of the push remote: name -> commit
    pulls,         \* the pull requests the forge opened
    warnings,      \* the names log::warn! was called for
    start,         \* HEAD, the commit and lon.lock when the run started
    lon_list_commits,  \* the environment variable LON_LIST_COMMITS
    base_ref,      \* bot: base_ref
    sources,       \* bot_fallible: sources
    m_sources,     \* bot_fallible: m_sources
    i,             \* bot_fallible: the position of `name` in `names`
    summary,       \* bot_fallible: summary
    list_commits,  \* bot_fallible: list_commits
    result,        \* bot: result
    ret,           \* what bot() returned
    trace          \* the external steps made so far, in order

botVars == <<pc, head, refs, commits, work, remote, pulls, warnings, start,
             lon_list_commits, base_ref, sources, m_sources, i, summary,
             list_commits, result, ret, trace>>

\* A direct command (update, add git, add github) run in a directory.
VARIABLES
    cmd,            \* the command line: the command, its name argument, --commit
    lock_file,      \* lon.lock in the directory
    cmd_sources,    \* update / add_git / add_github: sources
    names,          \* update: names
    pos,            \* update: the position of `name` in `names`
    commit_message, \* update: commit_message, the (name, summary) pairs added
    cmd_pc,         \* the position in the command's function
    cmd_ret,        \* what the command returned
    cmd_log         \* the external calls made so far, in order

cmdVars == <<cmd, lock_file, cmd_sources, names, pos, commit_message, cmd_pc,
             cmd_ret, cmd_log>>

\* The values the formatting and parsing functions are applied to.
VARIABLES
    msg,            \* a CommitMessage: the (name, summary) pairs added to it
    rendered,       \* msg.to_string()
    log_pairs,      \* (revision, message) pairs of a commit log
    rev_lists,      \* the RevList of each construction path for log_pairs
    lock_doc,       \* a lock document (the text of a lon.lock)
    lock_out        \* lock_doc parsed, converted to Sources and serialized

fmtVars == <<msg, rendered, log_pairs, rev_lists, lock_doc, lock_out>>

\* The calls made to a forge and to the upstream history.
VARIABLES
    forge,          \* an open_pull_request call: the forge, its requests, its result
    hist            \* a rev_list call: the upstream history, the limit, its result

extVars == <<forge, hist>>

vars == <<srcVars, botVars, cmdVars, fmtVars, extVars>>

\* What a call returned and did: a CallResult without the source.
Outcome(r) ==
    [ok |-> r.ok, err |-> r.err, some |-> r.some,
     old_revision |-> r.old_revision, new_revision |-> r.new_revision,
     lookups |-> r.lookups, hashes |-> r.hashes, stamps |-> r.stamps,
     newest |-> r.newest, lock_rev |-> r.lock_rev]

\* No lookup was made, so there is no answer.
NoAnswer == [ok |-> FALSE, refs |-> <<>>]

NoCall ==
    [op |-> "none", arg_branch |-> NoBranch, arg_revision |-> NoRev,
     pre |-> GitSourceNew("main", 1, FALSE, FALSE, FALSE), tip |-> NoRev,
     answer |-> NoAnswer,
     res |-> Outcome(Untouched(GitSourceNew("main", 1, FALSE, FALSE, FALSE)))]

NoPrev == [op |-> "none", some |-> FALSE, tip |-> NoRev]

\* The source API is not used by a bot run.
IdleSrc == src = GitSourceNew("main", 1, FALSE, FALSE, FALSE) /\ call = NoCall /\ prev = NoPrev


NoCommit == 0

NoRef == <<>>

\* Sources::names: the keys of the BTreeMap, in ascending order.
Names == 1..MaxSources

MainBranch == <<"main">>

\* format!("lon/{name}")
LonBranch(name) == <<"lon/", name>>

\* The output of `git rev-parse HEAD` on a detached HEAD.
Sha(commit) == <<"sha", commit>>

BranchNames == {MainBranch} \cup { LonBranch(n) : n \in Names }

Ok == [ok |-> TRUE, err |-> ""]

Err(op) == [ok |-> FALSE, err |-> op]

NoSummary == [some |-> FALSE, old_revision |-> NoRev, new_revision |-> NoRev,
              rev_list |-> FALSE]

\* One external step: what was called, for which source, how it ended.
Event(op, name, ok, ref, commit) ==
    [op |-> op, name |-> name, ok |-> ok, ref |-> ref, commit |-> commit]

\* The registry of the lock file the run starts from: odd names are Git
\* sources, even names GitHub sources, each locked to revision 1.
Registry(frozen) ==
    [n \in Names |->
        IF n % 2 = 1
        THEN GitSourceNew("main", 1, FALSE, n \in frozen, TRUE)
        ELSE GitHubSourceNew("owner", "repo", "main", 1, n \in frozen)]

\* Sources::default(): a registry without sources.
EmptyRegistry == << >>

\* Option<String> name = None.
NoName == 0

\* No direct command is running.
IdleCmd ==
    /\ cmd = [op |-> "none", name |-> NoName, commit |-> FALSE, revision |-> NoRev,
              branch |-> NoBranch, lock |-> EmptyRegistry]
    /\ lock_file = EmptyRegistry
    /\ cmd_sources = EmptyRegistry
    /\ names = <<>>
    /\ pos = 1
    /\ commit_message = <<>>
    /\ cmd_pc = "idle"
    /\ cmd_ret = Ok
    /\ cmd_log = <<>>

\* No forge is called and no history is fetched.
IdleExt ==
    /\ forge = [pc |-> "idle"]
    /\ hist = [pc |-> "idle"]

\* No formatting or parsing function is being applied.
IdleFmt ==
    /\ msg = <<>>
    /\ rendered = <<>>
    /\ log_pairs = <<>>
    /\ rev_lists = <<>>
    /\ lock_doc = <<>>
    /\ lock_out = <<>>

\* ----------------------------------------------------------------- git

IsBranch(ref) == ref \in BranchNames /\ refs[ref] # NoCommit

\* The commit a ref names: a branch's tip, or the commit of a hash.
CommitOf(ref) == IF IsBranch(ref) THEN refs[ref] ELSE ref[2]

HeadCommit == CommitOf(head)

\* lon.lock differs from the one of the commit checked out.
Dirty == work # commits[HeadCommit].lock

\* `git checkout <ref>` refuses to overwrite a locally modified file that
\* differs between the two commits; otherwise local modifications are kept.
CheckoutRefuses(ref) ==
    Dirty /\ commits[CommitOf(ref)].lock # commits[HeadCommit].lock

\* git::checkout(directory, reference, false), succeeding.
GitCheckout(ref) ==
    /\ head' = ref
    /\ work' = IF Dirty THEN work ELSE commits[CommitOf(ref)].lock
    /\ UNCHANGED <<refs, commits>>

\* git::checkout(directory, branch, true): `git checkout -B <branch>` creates
\* the branch at HEAD, or resets it to HEAD, and switches to it.
GitCheckoutNewBranch(branch) ==
    /\ refs' = [refs EXCEPT ![branch] = HeadCommit]
    /\ head' = branch
    /\ UNCHANGED <<work, commits>>

\* git::add of lon.lock and lon.nix, then git::commit: a new commit on top of
\* HEAD that holds the working directory's lon.lock.
GitCommit(name, message) ==
    /\ commits' = Append(commits, [parent |-> HeadCommit, lock |-> work,
                                   name |-> name, summary |-> message])
    /\ refs' = IF IsBranch(head)
               THEN [refs EXCEPT ![head] = Len(commits) + 1]
               ELSE refs
    /\ head' = IF IsBranch(head) THEN head ELSE Sha(Len(commits) + 1)
    /\ UNCHANGED work

\* `git commit` fails when nothing is staged.
NothingToCommit == ~Dirty

\* git::force_push(directory, url, branch)
GitForcePush(branch) == remote' = [remote EXCEPT ![branch] = refs[branch]]

\* git::current_rev: the short name of the branch HEAD is on, else the hash.
CurrentRev == head

\* ----------------------------------------------------------- bot_fallible

\* The default of 50 taken for an unset variable as well.
ListCommitsUnsetIsDefault(v) ==
    CASE v = "0" -> 0
      [] v = "2" -> 2
      [] OTHER -> 50

\* LON_LIST_COMMITS: unset -> 0, a number -> that number, anything else -> 50.
ListCommits(v) ==
    CASE v = "unset" -> 0
      [] v = "0" -> 0
      [] v = "2" -> 2
      [] OTHER -> 50

\* The skip without the frozen check.
SkipsOnlyMissing(registry, name) == name \notin DOMAIN registry

\* Source::frozen, after m_sources.get_mut(name): whether the loop skips name.
Skips(registry, name) ==
    IF name \notin DOMAIN registry THEN TRUE ELSE registry[name].frozen

\* One registry mutated across the iterations instead of a clone per name.
ClonedSourcesShared == m_sources

\* The clone of the original sources each iteration starts from.
ClonedSources == sources

\* Every error propagated with `?`, the forge's included.
OnStepAllFatal(op, ok) == [abort |-> ~ok, warn |-> FALSE]

\* A failed push logged and skipped like a failed forge request.
OnStepPushTolerated(op, ok) ==
    IF op \in {"open_pull_request", "push"}
    THEN [abort |-> FALSE, warn |-> ~ok]
    ELSE [abort |-> ~ok, warn |-> FALSE]

\* A failed commit logged and skipped like a failed forge request.
OnStepCommitTolerated(op, ok) ==
    IF op \in {"open_pull_request", "commit"}
    THEN [abort |-> FALSE, warn |-> ~ok]
    ELSE [abort |-> ~ok, warn |-> FALSE]

\* How the loop goes on after a step: `?` propagates every error but the one
\* of forge.open_pull_request, which is matched and logged as a warning.
OnStep(op, ok) ==
    IF op = "open_pull_request"
    THEN [abort |-> FALSE, warn |-> ~ok]
    ELSE [abort |-> ~ok, warn |-> FALSE]

\* An error leaves the loop: bot_fallible returns it to bot.
Abort(op) ==
    /\ result' = Err(op)
    /\ pc' = "restore"

Logged(e) == trace' = Append(trace, e)

\* The step source.update(): how it ended and whether it returned a summary.
UpdateEvent(name, r) ==
    [op |-> "update", name |-> name, ok |-> r.ok, ref |-> NoRef,
     commit |-> NoCommit, some |-> r.some]

\* A cycle that goes on without a summary.
NoUpdatesIgnored(r) == FALSE

\* let Some(mut summary) = summary else { continue }
NoUpdates(r) == ~r.some

Name == i

\* bot: git::current_rev(&directory)?
BotStart ==
    /\ pc = "start"
    /\ \E ok \in BOOLEAN :
          /\ Logged(Event("current_rev", 0, ok, NoRef, NoCommit))
          /\ IF ok
             THEN /\ base_ref' = CurrentRev
                  /\ pc' = "read"
                  /\ UNCHANGED ret
             ELSE /\ ret' = Err("current_rev")
                  /\ pc' = "done"
                  /\ UNCHANGED base_ref
    /\ UNCHANGED <<srcVars, cmdVars, fmtVars, extVars>>
    /\ UNCHANGED <<head, refs, commits, work, remote, pulls, warnings, start,
                   lon_list_commits, sources, m_sources, i, summary,
                   list_commits, result>>

\* bot_fallible: Sources::read, names, LON_LIST_COMMITS.
BotRead ==
    /\ pc = "read"
    /\ \E ok \in BOOLEAN :
          /\ Logged(Event("read", 0, ok, NoRef, NoCommit))
          /\ IF OnStep("read", ok).abort
             THEN /\ Abort("read")
                  /\ UNCHANGED <<sources, m_sources, list_commits, i>>
             ELSE /\ sources' = work
                  /\ m_sources' = work
                  /\ list_commits' = ListCommits(lon_list_commits)
                  /\ i' = 1
                  /\ pc' = "loop"
                  /\ UNCHANGED result
    /\ UNCHANGED <<srcVars, cmdVars, fmtVars, extVars>>
    /\ UNCHANGED <<head, refs, commits, work, remote, pulls, warnings, start,
                   lon_list_commits, base_ref, summary, ret>>

\* bot_fallible: the head of the loop: the end of names, or the clone and the
\* frozen check of the next name.
BotNext ==
    /\ pc = "loop"
    /\ IF i > MaxSources
       THEN /\ result' = Ok
            /\ pc' = "restore"
            /\ UNCHANGED <<m_sources, i, trace>>
       ELSE /\ m_sources' = ClonedSources
            /\ IF Skips(ClonedSources, Name)
               THEN /\ i' = i + 1
                    /\ pc' = "loop"
                    /\ Logged(Event("skip", Name, TRUE, NoRef, NoCommit))
               ELSE /\ pc' = "checkout_base"
                    /\ UNCHANGED <<i, trace>>
            /\ UNCHANGED result
    /\ UNCHANGED <<srcVars, cmdVars, fmtVars, extVars>>
    /\ UNCHANGED <<head, refs, commits, work, remote, pulls, warnings, start,
                   lon_list_commits, base_ref, sources, summary, list_commits, ret>>

\* bot_fallible: git::checkout(&directory, base_ref, false)?
BotCheckoutBase ==
    /\ pc = "checkout_base"
    /\ \E ok \in {b \in BOOLEAN : b => ~CheckoutRefuses(base_ref)} :
          /\ Logged(Event("checkout_base", Name, ok, base_ref, NoCommit))
          /\ IF OnStep("checkout_base", ok).abort
             THEN /\ Abort("checkout_base")
                  /\ UNCHANGED <<head, refs, commits, work>>
             ELSE /\ GitCheckout(base_ref)
                  /\ pc' = "create_branch"
                  /\ UNCHANGED result
    /\ UNCHANGED <<srcVars, cmdVars, fmtVars, extVars>>
    /\ UNCHANGED <<remote, pulls, warnings, start, lon_list_commits, base_ref,
                   sources, m_sources, i, summary, list_commits, ret>>

\* bot_fallible: git::checkout(&directory, &branch, true)?
BotCreateBranch ==
    /\ pc = "create_branch"
    /\ \E ok \in BOOLEAN :
          /\ Logged(Event("create_branch", Name, ok, LonBranch(Name), NoCommit))
          /\ IF OnStep("create_branch", ok).abort
             THEN /\ Abort("create_branch")
                  /\ UNCHANGED <<head, refs, commits, work>>
             ELSE /\ GitCheckoutNewBranch(LonBranch(Name))
                  /\ pc' = "update"
                  /\ UNCHANGED result
    /\ UNCHANGED <<srcVars, cmdVars, fmtVars, extVars>>
    /\ UNCHANGED <<remote, pulls, warnings, start, lon_list_commits, base_ref,
                   sources, m_sources, i, summary, list_commits, ret>>

\* bot_fallible: source.update()?, and the `continue` when it returns None.
BotUpdate ==
    /\ pc = "update"
    /\ \E tip \in Revs :
          \E env \in Envs(tip) :
              LET r == SourceUpdate(m_sources[Name], env)
              IN  /\ Logged(UpdateEvent(Name, r))
                  /\ m_sources' = [m_sources EXCEPT ![Name] = r.src]
                  /\ IF OnStep("update", r.ok).abort
                     THEN /\ Abort("update")
                          /\ UNCHANGED <<i, summary>>
                     ELSE IF NoUpdates(r)
                     THEN /\ i' = i + 1
                          /\ pc' = "loop"
                          /\ UNCHANGED <<summary, result>>
                     ELSE /\ summary' = [some |-> TRUE,
                                         old_revision |-> r.old_revision,
                                         new_revision |-> r.new_revision,
                                         rev_list |-> FALSE]
                          /\ pc' = IF list_commits > 0 THEN "rev_list" ELSE "write"
                          /\ UNCHANGED <<i, result>>
    /\ UNCHANGED <<srcVars, cmdVars, fmtVars, extVars>>
    /\ UNCHANGED <<head, refs, commits, work, remote, pulls, warnings, start,
                   lon_list_commits, base_ref, sources, list_commits, ret>>

\* bot_fallible: source.rev_list(&summary, list_commits)?, summary.add_rev_list
BotRevList ==
    /\ pc = "rev_list"
    /\ \E ok \in BOOLEAN :
          /\ Logged(Event("rev_list", Name, ok, NoRef, NoCommit))
          /\ IF OnStep("rev_list", ok).abort
             THEN /\ Abort("rev_list")
                  /\ UNCHANGED summary
             ELSE /\ summary' = [summary EXCEPT !.rev_list = TRUE]
                  /\ pc' = "write"
                  /\ UNCHANGED result
    /\ UNCHANGED <<srcVars, cmdVars, fmtVars, extVars>>
    /\ UNCHANGED <<head, refs, commits, work, remote, pulls, warnings, start,
                   lon_list_commits, base_ref, sources, m_sources, i,
                   list_commits, ret>>

\* bot_fallible: m_sources.write(&directory)?; LonNix::update(&directory)?
\* A failure of the first leaves lon.lock as it was, one of the second comes
\* after lon.lock was written.
BotWrite ==
    /\ pc = "write"
    /\ \E written \in BOOLEAN, ok \in BOOLEAN :
          /\ ok => written
          /\ Logged(Event("write", Name, ok, NoRef, NoCommit))
          /\ work' = IF written THEN m_sources ELSE work
          /\ IF OnStep("write", ok).abort
             THEN Abort("write")
             ELSE /\ pc' = "commit"
                  /\ UNCHANGED result
    /\ UNCHANGED <<srcVars, cmdVars, fmtVars, extVars>>
    /\ UNCHANGED <<head, refs, commits, remote, pulls, warnings, start,
                   lon_list_commits, base_ref, sources, m_sources, i, summary,
                   list_commits, ret>>

\* bot_fallible: commit(&directory, &commit_message.to_string(), user)?
BotCommit ==
    /\ pc = "commit"
    /\ \E ok \in {b \in BOOLEAN : b => ~NothingToCommit} :
          /\ Logged(Event("commit", Name, ok, head,
                          IF ok THEN Len(commits) + 1 ELSE NoCommit))
          /\ IF OnStep("commit", ok).abort
             THEN /\ Abort("commit")
                  /\ UNCHANGED <<head, refs, commits, work>>
             ELSE /\ GitCommit(Name, summary)
                  /\ pc' = "push"
                  /\ UNCHANGED result
    /\ UNCHANGED <<srcVars, cmdVars, fmtVars, extVars>>
    /\ UNCHANGED <<remote, pulls, warnings, start, lon_list_commits, base_ref,
                   sources, m_sources, i, summary, list_commits, ret>>

\* bot_fallible: git::force_push(&directory, push_url, &branch)?
BotPush ==
    /\ pc = "push"
    /\ \E ok \in BOOLEAN :
          /\ Logged(Event("push", Name, ok, LonBranch(Name),
                          IF ok THEN refs[LonBranch(Name)] ELSE NoCommit))
          /\ IF OnStep("push", ok).abort
             THEN /\ Abort("push")
                  /\ UNCHANGED remote
             ELSE /\ GitForcePush(LonBranch(Name))
                  /\ pc' = "open_pull_request"
                  /\ UNCHANGED result
    /\ UNCHANGED <<srcVars, cmdVars, fmtVars, extVars>>
    /\ UNCHANGED <<head, refs, commits, work, pulls, warnings, start,
                   lon_list_commits, base_ref, sources, m_sources, i, summary,
                   list_commits, ret>>

\* bot_fallible: match forge.open_pull_request(&branch, name, body)
BotOpenPullRequest ==
    /\ pc = "open_pull_request"
    /\ \E ok \in BOOLEAN :
          /\ Logged(Event("open_pull_request", Name, ok, LonBranch(Name), NoCommit))
          /\ pulls' = IF ok
                      THEN pulls \cup {[branch |-> LonBranch(Name), name |-> Name,
                                        summary |-> summary]}
                      ELSE pulls
          /\ warnings' = IF OnStep("open_pull_request", ok).warn
                         THEN warnings \cup {Name}
                         ELSE warnings
          /\ IF OnStep("open_pull_request", ok).abort
             THEN /\ Abort("open_pull_request")
                  /\ UNCHANGED i
             ELSE /\ i' = i + 1
                  /\ pc' = "loop"
                  /\ UNCHANGED result
    /\ UNCHANGED <<srcVars, cmdVars, fmtVars, extVars>>
    /\ UNCHANGED <<head, refs, commits, work, remote, start, lon_list_commits,
                   base_ref, sources, m_sources, summary, list_commits, ret>>

\* bot returning bot_fallible's error at once: bot_fallible(..)? before the
\* checkout.
BotRestoreOnlyOnSuccess ==
    /\ pc = "restore"
    /\ IF ~result.ok
       THEN /\ ret' = result
            /\ UNCHANGED <<head, refs, commits, work, trace>>
       ELSE /\ Logged(Event("restore", 0, TRUE, base_ref, NoCommit))
            /\ GitCheckout(base_ref)
            /\ ret' = result
    /\ pc' = "done"
    /\ UNCHANGED <<srcVars, cmdVars, fmtVars, extVars>>
    /\ UNCHANGED <<remote, pulls, warnings, start, lon_list_commits, base_ref,
                   sources, m_sources, i, summary, list_commits, result>>

\* bot: git::checkout(&directory, &base_ref, false)?; result
BotRestore ==
    /\ pc = "restore"
    /\ \E ok \in {b \in BOOLEAN : b => ~CheckoutRefuses(base_ref)} :
          /\ Logged(Event("restore", 0, ok, base_ref, NoCommit))
          /\ IF ok
             THEN /\ GitCheckout(base_ref)
                  /\ ret' = result
             ELSE /\ ret' = Err("restore")
                  /\ UNCHANGED <<head, refs, commits, work>>
          /\ pc' = "done"
    /\ UNCHANGED <<srcVars, cmdVars, fmtVars, extVars>>
    /\ UNCHANGED <<remote, pulls, warnings, start, lon_list_commits, base_ref,
                   sources, m_sources, i, summary, list_commits, result>>

\* The repository a run starts in: an older commit 1 and the commit 2 that is
\* checked out, both holding the same lon.lock; HEAD on main, detached, or on
\* a branch lon/<name>; branches lon/<name> left by an earlier run or none.
InitBot ==
    \E frozen \in SUBSET Names, stale \in BOOLEAN :
        /\ pc = "start"
        /\ head \in {MainBranch, Sha(2)} \cup { LonBranch(n) : n \in Names }
        /\ commits = << [parent |-> NoCommit, lock |-> Registry(frozen),
                         name |-> 0, summary |-> NoSummary],
                        [parent |-> 1, lock |-> Registry(frozen),
                         name |-> 0, summary |-> NoSummary] >>
        /\ refs = [b \in BranchNames |->
                      IF b = MainBranch \/ b = head THEN 2
                      ELSE IF stale THEN 1 ELSE NoCommit]
        /\ work = Registry(frozen)
        /\ remote = [b \in BranchNames |-> NoCommit]
        /\ pulls = {}
        /\ warnings = {}
        /\ start = [head |-> head, commit |-> 2, lock |-> work, refs |-> refs]
        /\ lon_list_commits \in {"unset", "0", "2", "x"}
        /\ base_ref = NoRef
        /\ sources = Registry({})
        /\ m_sources = Registry({})
        /\ i = 1
        /\ summary = NoSummary
        /\ list_commits = 0
        /\ result = Ok
        /\ ret = Ok
        /\ trace = <<>>
        /\ IdleSrc
        /\ IdleCmd
        /\ IdleExt
        /\ IdleFmt

\* The bot is not running while the source API is exercised.
IdleBot ==
    \E frozen \in {{}} :
        /\ pc = "idle"
        /\ head = MainBranch
        /\ commits = <<>>
        /\ refs = [b \in BranchNames |-> NoCommit]
        /\ work = Registry(frozen)
        /\ remote = [b \in BranchNames |-> NoCommit]
        /\ pulls = {}
        /\ warnings = {}
        /\ start = [head |-> head, commit |-> NoCommit, lock |-> work, refs |-> refs]
        /\ lon_list_commits = "unset"
        /\ base_ref = NoRef
        /\ sources = Registry({})
        /\ m_sources = Registry({})
        /\ i = 1
        /\ summary = NoSummary
        /\ list_commits = 0
        /\ result = Ok
        /\ ret = Ok
        /\ trace = <<>>

\* ------------------------------------------------------------------ text

\* A string is the sequence of its characters.

\* String::concat over a sequence of strings.
RECURSIVE Concat(_)
Concat(strings) ==
    IF Len(strings) = 0 THEN <<>> ELSE Head(strings) \o Concat(Tail(strings))

\* The position of the first c in s, 0 if there is none.
Find(s, c) ==
    IF \E k \in 1..Len(s) : s[k] = c
    THEN CHOOSE k \in 1..Len(s) : s[k] = c /\ \A j \in 1..(k - 1) : s[j] # c
    ELSE 0

\* str::split_inclusive('\n'): the pieces of s, each ending with its line feed.
RECURSIVE SplitInclusive(_)
SplitInclusive(s) ==
    IF Len(s) = 0
    THEN <<>>
    ELSE LET k == Find(s, "\n")
         IN  IF k = 0
             THEN <<s>>
             ELSE <<SubSeq(s, 1, k)>> \o SplitInclusive(SubSeq(s, k + 1, Len(s)))

\* str::strip_suffix of one character, the string itself if it does not end so.
StripSuffix(s, c) ==
    IF Len(s) > 0 /\ s[Len(s)] = c THEN SubSeq(s, 1, Len(s) - 1) ELSE s

\* str::lines: the pieces without their "\n" or "\r\n"; a last piece that has
\* no line feed is kept as it is.
Lines(s) ==
    LET pieces == SplitInclusive(s)
    IN  [k \in 1..Len(pieces) |->
            IF pieces[k][Len(pieces[k])] = "\n"
            THEN StripSuffix(StripSuffix(pieces[k], "\n"), "\r")
            ELSE pieces[k]]

\* usize's Display, in decimal.
RECURSIVE Decimal(_)
Decimal(number) ==
    LET digits == <<"0", "1", "2", "3", "4", "5", "6", "7", "8", "9">>
    IN  IF number < 10
        THEN <<digits[number + 1]>>
        ELSE Decimal(number \div 10) \o <<digits[(number % 10) + 1]>>

\* " ".repeat(indent)
Repeat(c, count) == [k \in 1..count |-> c]

\* ------------------------------------------------------------ git commits

\* Commit::from_str
CommitFromStr(revision, text) == [revision |-> revision, message |-> text]

\* Commit::message_summary: self.message.lines().next().unwrap_or_default()
MessageSummary(commit) ==
    IF Len(Lines(commit.message)) = 0 THEN <<>> ELSE Lines(commit.message)[1]

\* What a call that panicked leaves in place of its text: one element that is
\* no character.
Panicked == <<"panic">>

\* A panic in any piece of a text unwinds through the call that builds it.
Unwind(text) ==
    IF \E k \in 1..Len(text) : text[k] = Panicked[1] THEN Panicked ELSE text

\* Revision::short: &self.as_str()[..7], a slice that panics when the string
\* is shorter than 7 bytes.
RevisionShort(revision) ==
    IF Len(revision) < 7 THEN Panicked ELSE SubSeq(revision, 1, 7)

\* UpdateSummary::add_rev_list
AddRevList(s, revs) == [s EXCEPT !.rev_list = revs, !.has_rev_list = TRUE]

\* --------------------------------------------------------- commit message

\* The character U+2022, the bullet that opens a source's block.
Bullet == "U+2022"

\* The character U+2192, the arrow in front of the new revision.
Arrow == "U+2192"

\* rev_list_overview printing each commit's whole message.
RevListOverviewWholeMessage(s, indent) ==
    LET prefix == Repeat(" ", indent)
    IN  prefix \o <<"L", "a", "s", "t", " ">> \o Decimal(Len(s.rev_list)) \o <<" ", "c", "o", "m", "m", "i", "t", "s", ":">>
        \o Concat([k \in 1..Len(s.rev_list) |->
                     <<"\n">> \o prefix \o <<" ", " ">>
                     \o RevisionShort(s.rev_list[k].revision) \o <<" ">>
                     \o s.rev_list[k].message])

\* CommitMessage::rev_list_overview, for a summary that has a rev list.
RevListOverview(s, indent) ==
    LET prefix == Repeat(" ", indent)
    IN  prefix \o <<"L", "a", "s", "t", " ">> \o Decimal(Len(s.rev_list)) \o <<" ", "c", "o", "m", "m", "i", "t", "s", ":">>
        \o Concat([k \in 1..Len(s.rev_list) |->
                     <<"\n">> \o prefix \o <<" ", " ">>
                     \o RevisionShort(s.rev_list[k].revision) \o <<" ">>
                     \o MessageSummary(s.rev_list[k])])

\* The two writeln! of body() for a summary with a rev list.
History(s, indent) ==
    IF s.has_rev_list
    THEN <<"\n">> \o RevListOverview(s, indent) \o <<"\n">>
    ELSE <<>>

\* body() with its blocks in reverse order.
CommitMessageBodyReversed(updates) ==
    IF Len(updates) = 1
    THEN <<"\n">> \o <<" ", " ">> \o updates[1][2].old_revision \o <<"\n">>
         \o <<Arrow, " ">> \o updates[1][2].new_revision \o <<"\n">>
         \o History(updates[1][2], 0)
    ELSE Concat([k \in 1..Len(updates) |->
                   LET u == updates[Len(updates) + 1 - k]
                   IN  <<"\n">> \o <<Bullet, " ">> \o u[1] \o <<":", "\n">>
                       \o <<" ", " ", " ", " ">> \o u[2].old_revision \o <<"\n">>
                       \o <<" ", " ", Arrow, " ">> \o u[2].new_revision \o <<"\n">>
                       \o History(u[2], 2)])

\* CommitMessage::body
CommitMessageBody(updates) ==
    IF Len(updates) = 1
    THEN <<"\n">> \o <<" ", " ">> \o updates[1][2].old_revision \o <<"\n">>
         \o <<Arrow, " ">> \o updates[1][2].new_revision \o <<"\n">>
         \o History(updates[1][2], 0)
    ELSE Concat([k \in 1..Len(updates) |->
                   <<"\n">> \o <<Bullet, " ">> \o updates[k][1] \o <<":", "\n">>
                   \o <<" ", " ", " ", " ">> \o updates[k][2].old_revision \o <<"\n">>
                   \o <<" ", " ", Arrow, " ">> \o updates[k][2].new_revision \o <<"\n">>
                   \o History(updates[k][2], 2)])

\* Display naming the first source whenever there is one.
CommitMessageDisplayNamesFirst(updates) ==
    (IF Len(updates) >= 1
     THEN <<"l", "o", "n", ":", " ", "u", "p", "d", "a", "t", "e">> \o <<" ">> \o updates[1][1] \o <<"\n">>
     ELSE <<"l", "o", "n", ":", " ", "u", "p", "d", "a", "t", "e">> \o <<"\n">>)
    \o CommitMessageBody(updates)

\* <CommitMessage as Display>::fmt
CommitMessageDisplay(updates) ==
    (IF Len(updates) = 1
     THEN <<"l", "o", "n", ":", " ", "u", "p", "d", "a", "t", "e">> \o <<" ">> \o updates[1][1] \o <<"\n">>
     ELSE <<"l", "o", "n", ":", " ", "u", "p", "d", "a", "t", "e">> \o <<"\n">>)
    \o CommitMessageBody(updates)

\* ------------------------------------------------------- direct commands

\* The names a command line can give: those of the lock file's sources and
\* one no lock file holds.
CmdNames == 1..(MaxSources + 1)

\* The lock files a command can find: a full registry, some sources frozen,
\* or a registry without sources.
LockFiles == { Registry(frozen) : frozen \in SUBSET Names } \cup {EmptyRegistry}

\* Sources::names: the keys of the BTreeMap, ascending.
SourcesNames(registry) ==
    LET keys == DOMAIN registry
    IN  CHOOSE s \in [1..Cardinality(keys) -> keys] :
            \A a, b \in 1..Cardinality(keys) : a < b => s[a] < s[b]

\* A registry said to hold no name.
SourcesContainsNothing(registry, name) == FALSE

\* Sources::contains
SourcesContains(registry, name) == name \in DOMAIN registry

\* Sources::add: BTreeMap::insert, which replaces the entry of a present key.
SourcesAdd(registry, name, source) ==
    [key \in DOMAIN registry \cup {name} |->
        IF key = name THEN source ELSE registry[key]]

\* A CommitMessage that never reports itself empty.
CommitMessageNeverEmpty(updates) == FALSE

\* CommitMessage::is_empty
CommitMessageIsEmpty(updates) == Len(updates) = 0

\* CommitMessage::add_summary
CommitMessageAddSummary(updates, name, s) == Append(updates, <<name, s>>)

\* UpdateSummary::new
UpdateSummaryNew(old_revision, new_revision) ==
    [old_revision |-> old_revision, new_revision |-> new_revision, rev_list |-> <<>>,
     has_rev_list |-> FALSE]

\* An update error that is dropped instead of returned.
UpdateErrorDropped(r) == FALSE

\* update: `source.update().with_context(..)?` returns the error of a failed update.
UpdateErrorReturned(r) == ~r.ok

\* GitSource::new / GitHubSource::new: the revision given or the newest one of
\* the branch, its hash, and for Git its timestamp; any failure is returned.
SourceNew(kind, revision, env) ==
    LET newest == IF revision # NoRev
                  THEN [ok |-> TRUE, err |-> "", rev |-> revision]
                  ELSE FindNewestRevision(env.ls)
        lookups == IF revision # NoRev THEN 0 ELSE 1
        made == IF kind = "Git"
                THEN GitSourceNew("main", newest.rev, FALSE, FALSE, TRUE)
                ELSE GitHubSourceNew("owner", "repo", "main", newest.rev, FALSE)
    IN  IF ~newest.ok
        THEN CallResult(made, FALSE, newest.err, FALSE, NoRev, NoRev,
                        lookups, 0, 0, NoRev, NoRev)
        ELSE IF ~env.hashOk
        THEN CallResult(made, FALSE, "hash", FALSE, NoRev, NoRev,
                        lookups, 1, 0, newest.rev, newest.rev)
        ELSE IF kind = "Git" /\ ~env.stampOk
        THEN CallResult(made, FALSE, "last_modified", FALSE, NoRev, NoRev,
                        lookups, 1, 1, newest.rev, newest.rev)
        ELSE CallResult(made, TRUE, "", FALSE, NoRev, NoRev,
                        lookups, 1, IF kind = "Git" THEN 1 ELSE 0,
                        newest.rev, newest.rev)

\* One external call of a command: what was called, for which source, how it
\* ended, and the lookups and hash computations it made.
CmdEvent(op, name, ok, lookups, hashes) ==
    [op |-> op, name |-> name, ok |-> ok, lookups |-> lookups, hashes |-> hashes]

\* The command returns.
CmdReturns(r) ==
    /\ cmd_ret' = r
    /\ cmd_pc' = "done"

\* sources.write(&directory)?; LonNix::update(&directory)?: the lock file is
\* written, or the write fails, or lon.nix fails after the lock file was written.
CmdWrite(registry, written, ok) ==
    /\ lock_file' = IF written THEN registry ELSE lock_file
    /\ cmd_log' = cmd_log \o
                  (IF written
                   THEN << CmdEvent("write", NoName, TRUE, 0, 0),
                           CmdEvent("lon_nix", NoName, ok, 0, 0) >>
                   ELSE << CmdEvent("write", NoName, FALSE, 0, 0) >>)

\* update: Sources::read and the selection of names.
CmdUpdateRead ==
    /\ cmd_pc = "start"
    /\ cmd.op = "update"
    /\ \E ok \in BOOLEAN :
          /\ cmd_log' = Append(cmd_log, CmdEvent("read", NoName, ok, 0, 0))
          /\ IF ~ok
             THEN /\ CmdReturns(Err("read"))
                  /\ UNCHANGED <<cmd_sources, names>>
             ELSE /\ cmd_sources' = lock_file
                  /\ names' = IF cmd.name # NoName
                              THEN <<cmd.name>>
                              ELSE SourcesNames(lock_file)
                  /\ IF Len(names') = 0
                     THEN CmdReturns(Err("no_sources"))
                     ELSE cmd_pc' = "update_loop" /\ UNCHANGED cmd_ret
    /\ UNCHANGED <<cmd, lock_file, pos, commit_message>>
    /\ UNCHANGED <<srcVars, botVars, fmtVars, extVars>>

\* update: one turn of `for name in &names`, or the test that follows the loop.
CmdUpdateNext ==
    /\ cmd_pc = "update_loop"
    /\ IF pos > Len(names)
       THEN /\ IF CommitMessageIsEmpty(commit_message)
               THEN CmdReturns(Err("no_updates"))
               ELSE cmd_pc' = "update_write" /\ UNCHANGED cmd_ret
            /\ UNCHANGED <<cmd_sources, pos, commit_message, cmd_log>>
       ELSE LET name == names[pos]
            IN  IF ~SourcesContains(cmd_sources, name)
                THEN /\ CmdReturns(Err("missing"))
                     /\ UNCHANGED <<cmd_sources, pos, commit_message, cmd_log>>
                ELSE \E tip \in Revs :
                       \E env \in Envs(tip) :
                         LET r == SourceUpdate(cmd_sources[name], env)
                         IN  /\ cmd_sources' = [cmd_sources EXCEPT ![name] = r.src]
                             /\ cmd_log' = Append(cmd_log,
                                    CmdEvent("update", name, r.ok, r.lookups, r.hashes))
                             /\ IF UpdateErrorReturned(r)
                                THEN /\ CmdReturns(Err("update"))
                                     /\ UNCHANGED <<pos, commit_message>>
                                ELSE /\ commit_message' =
                                          IF r.some
                                          THEN CommitMessageAddSummary(commit_message, name,
                                                   UpdateSummaryNew(r.old_revision,
                                                                    r.new_revision))
                                          ELSE commit_message
                                     /\ pos' = pos + 1
                                     /\ UNCHANGED <<cmd_pc, cmd_ret>>
    /\ UNCHANGED <<cmd, lock_file, names>>
    /\ UNCHANGED <<srcVars, botVars, fmtVars, extVars>>

\* update: sources.write(&directory)?; LonNix::update(&directory)?
CmdUpdateWrite ==
    /\ cmd_pc = "update_write"
    /\ \E written \in BOOLEAN, ok \in BOOLEAN :
          /\ ok => written
          /\ CmdWrite(cmd_sources, written, ok)
          /\ IF ~ok
             THEN CmdReturns(Err("write"))
             ELSE IF cmd.commit
             THEN cmd_pc' = "update_commit" /\ UNCHANGED cmd_ret
             ELSE CmdReturns(Ok)
    /\ UNCHANGED <<cmd, cmd_sources, names, pos, commit_message>>
    /\ UNCHANGED <<srcVars, botVars, fmtVars, extVars>>

\* update: commit(&directory, &commit_message.to_string(), None)?
CmdUpdateCommit ==
    /\ cmd_pc = "update_commit"
    /\ \E ok \in BOOLEAN :
          /\ cmd_log' = Append(cmd_log, CmdEvent("commit", NoName, ok, 0, 0))
          /\ CmdReturns(IF ok THEN Ok ELSE Err("commit"))
    /\ UNCHANGED <<cmd, lock_file, cmd_sources, names, pos, commit_message>>
    /\ UNCHANGED <<srcVars, botVars, fmtVars, extVars>>

\* add_git / add_github up to the uniqueness check: the identifier of
\* add_github is split, the lock file read, the name looked up.
CmdAddCheck ==
    /\ cmd_pc = "start"
    /\ cmd.op \in {"add_git", "add_github"}
    /\ \E parsed \in {b \in BOOLEAN : cmd.op = "add_git" => b}, ok \in BOOLEAN :
          IF ~parsed
          THEN /\ CmdReturns(Err("identifier"))
               /\ UNCHANGED <<cmd_sources, cmd_log>>
          ELSE /\ cmd_log' = Append(cmd_log, CmdEvent("read", NoName, ok, 0, 0))
               /\ IF ~ok
                  THEN /\ CmdReturns(Err("read"))
                       /\ UNCHANGED cmd_sources
                  ELSE /\ cmd_sources' = lock_file
                       /\ IF SourcesContains(lock_file, cmd.name)
                          THEN CmdReturns(Err("exists"))
                          ELSE cmd_pc' = "add_new" /\ UNCHANGED cmd_ret
    /\ UNCHANGED <<cmd, lock_file, names, pos, commit_message>>
    /\ UNCHANGED <<srcVars, botVars, fmtVars, extVars>>

\* add_git / add_github once the name is free: the source is made, added, and the
\* lock file and lon.nix are written.
CmdAddNew ==
    /\ cmd_pc = "add_new"
    /\ \E tip \in Revs :
          \E env \in Envs(tip) :
            LET kind == IF cmd.op = "add_git" THEN "Git" ELSE "GitHub"
                r == SourceNew(kind, cmd.revision, env)
                added == SourcesAdd(cmd_sources, cmd.name, r.src)
            IN  IF ~r.ok
                THEN /\ cmd_log' = Append(cmd_log,
                            CmdEvent("new", cmd.name, FALSE, r.lookups, r.hashes))
                     /\ CmdReturns(Err("new"))
                     /\ UNCHANGED <<cmd_sources, lock_file>>
                ELSE \E written \in BOOLEAN, ok \in BOOLEAN :
                        /\ ok => written
                        /\ cmd_sources' = added
                        /\ lock_file' = IF written THEN added ELSE lock_file
                        /\ cmd_log' = cmd_log \o
                              << CmdEvent("new", cmd.name, TRUE, r.lookups, r.hashes),
                                 CmdEvent("write", NoName, written, 0, 0) >>
                        /\ CmdReturns(IF ok THEN Ok ELSE Err("write"))
    /\ UNCHANGED <<cmd, names, pos, commit_message>>
    /\ UNCHANGED <<srcVars, botVars, fmtVars, extVars>>

\* A lookup that answers with the first source when the name is absent.
SourcesGetMutOrFirst(registry, name) ==
    IF DOMAIN registry = {}
    THEN <<>>
    ELSE IF name \in DOMAIN registry
    THEN <<name>>
    ELSE <<CHOOSE k \in DOMAIN registry : \A j \in DOMAIN registry : k <= j>>

\* Sources::get_mut: Some(the entry of name) or None, as a sequence holding
\* the key of the entry found.
SourcesGetMut(registry, name) ==
    IF name \in DOMAIN registry THEN <<name>> ELSE <<>>

\* Sources::remove: BTreeMap::remove
SourcesRemove(registry, name) ==
    [key \in DOMAIN registry \ {name} |-> registry[key]]

\* The start of modify, remove, freeze and unfreeze: Sources::read failed.
CmdReadFailed ==
    /\ cmd_log' = Append(cmd_log, CmdEvent("read", NoName, FALSE, 0, 0))
    /\ CmdReturns(Err("read"))
    /\ UNCHANGED <<cmd_sources, lock_file>>

\* bail!("Source {} doesn't exist", args.name) after Sources::read.
CmdBailMissing ==
    /\ cmd_log' = Append(cmd_log, CmdEvent("read", NoName, TRUE, 0, 0))
    /\ cmd_sources' = lock_file
    /\ CmdReturns(Err("missing"))
    /\ UNCHANGED lock_file

\* The end of modify, remove, freeze and unfreeze: the change `op` was made
\* to the sources read, then sources.write(&directory)?;
\* LonNix::update(&directory)?; Ok(())
CmdChanged(op, changed, lookups, hashes) ==
    \E written \in BOOLEAN, ok \in BOOLEAN :
        /\ ok => written
        /\ cmd_sources' = changed
        /\ lock_file' = IF written THEN changed ELSE lock_file
        /\ cmd_log' = cmd_log \o
              << CmdEvent("read", NoName, TRUE, 0, 0),
                 CmdEvent(op, cmd.name, TRUE, lookups, hashes),
                 CmdEvent("write", NoName, written, 0, 0) >>
        /\ CmdReturns(IF ok THEN Ok ELSE Err("write"))

\* modify
CmdModify ==
    /\ cmd_pc = "start"
    /\ cmd.op = "modify"
    /\ \E read \in BOOLEAN :
          IF ~read
          THEN CmdReadFailed
          ELSE LET found == SourcesGetMut(lock_file, cmd.name)
               IN  IF Len(found) = 0
                   THEN CmdBailMissing
                   ELSE \E in \in ModifyEnvs(lock_file[found[1]], cmd.branch, cmd.revision) :
                          LET r == SourceModify(lock_file[found[1]], cmd.branch,
                                                cmd.revision, in[2])
                              changed == [lock_file EXCEPT ![found[1]] = r.src]
                          IN  IF ~r.ok
                              THEN /\ cmd_sources' = changed
                                   /\ cmd_log' = cmd_log \o
                                         << CmdEvent("read", NoName, TRUE, 0, 0),
                                            CmdEvent("modify", cmd.name, FALSE,
                                                     r.lookups, r.hashes) >>
                                   /\ CmdReturns(Err("modify"))
                                   /\ UNCHANGED lock_file
                              ELSE CmdChanged("modify", changed, r.lookups, r.hashes)
    /\ UNCHANGED <<cmd, names, pos, commit_message>>
    /\ UNCHANGED <<srcVars, botVars, fmtVars, extVars>>

\* remove
CmdRemove ==
    /\ cmd_pc = "start"
    /\ cmd.op = "remove"
    /\ \E read \in BOOLEAN :
          IF ~read
          THEN CmdReadFailed
          ELSE IF ~SourcesContains(lock_file, cmd.name)
          THEN CmdBailMissing
          ELSE CmdChanged("remove", SourcesRemove(lock_file, cmd.name), 0, 0)
    /\ UNCHANGED <<cmd, names, pos, commit_message>>
    /\ UNCHANGED <<srcVars, botVars, fmtVars, extVars>>

\* freeze
CmdFreeze ==
    /\ cmd_pc = "start"
    /\ cmd.op = "freeze"
    /\ \E read \in BOOLEAN :
          IF ~read
          THEN CmdReadFailed
          ELSE LET found == SourcesGetMut(lock_file, cmd.name)
               IN  IF Len(found) = 0
                   THEN CmdBailMissing
                   ELSE CmdChanged("freeze",
                            [lock_file EXCEPT ![found[1]] = SourceFreeze(@)], 0, 0)
    /\ UNCHANGED <<cmd, names, pos, commit_message>>
    /\ UNCHANGED <<srcVars, botVars, fmtVars, extVars>>

\* unfreeze
CmdUnfreeze ==
    /\ cmd_pc = "start"
    /\ cmd.op = "unfreeze"
    /\ \E read \in BOOLEAN :
          IF ~read
          THEN CmdReadFailed
          ELSE LET found == SourcesGetMut(lock_file, cmd.name)
               IN  IF Len(found) = 0
                   THEN CmdBailMissing
                   ELSE CmdChanged("unfreeze",
                            [lock_file EXCEPT ![found[1]] = SourceUnfreeze(@)], 0, 0)
    /\ UNCHANGED <<cmd, names, pos, commit_message>>
    /\ UNCHANGED <<srcVars, botVars, fmtVars, extVars>>

\* The command lines: update [name] [--commit], add git <name> [--revision],
\* add github <name> [--revision], modify <name> [--branch] [--revision],
\* remove <name>, freeze <name>, unfreeze <name>.
Commands(found) ==
    { [op |-> "update", name |-> name, commit |-> commit, revision |-> NoRev,
       branch |-> NoBranch, lock |-> found] :
         name \in CmdNames \cup {NoName}, commit \in BOOLEAN }
    \cup
    { [op |-> op, name |-> name, commit |-> FALSE, revision |-> revision,
       branch |-> NoBranch, lock |-> found] :
         op \in {"add_git", "add_github"}, name \in CmdNames,
         revision \in {NoRev, 1} }
    \cup
    { [op |-> "modify", name |-> name, commit |-> FALSE, revision |-> revision,
       branch |-> branch, lock |-> found] :
         name \in CmdNames, revision \in Revs \cup {NoRev},
         branch \in Branches \cup {NoBranch} }
    \cup
    { [op |-> op, name |-> name, commit |-> FALSE, revision |-> NoRev,
       branch |-> NoBranch, lock |-> found] :
         op \in {"remove", "freeze", "unfreeze"}, name \in CmdNames }

InitCmd ==
    /\ lock_file \in LockFiles
    /\ cmd \in Commands(lock_file)
    /\ cmd_sources = EmptyRegistry
    /\ names = <<>>
    /\ pos = 1
    /\ commit_message = <<>>
    /\ cmd_pc = "start"
    /\ cmd_ret = Ok
    /\ cmd_log = <<>>
    /\ IdleSrc
    /\ IdleBot
    /\ IdleFmt
    /\ IdleExt

NextCmd ==
    \/ CmdUpdateRead
    \/ CmdUpdateNext
    \/ CmdUpdateWrite
    \/ CmdUpdateCommit
    \/ CmdAddCheck
    \/ CmdAddNew
    \/ CmdModify
    \/ CmdRemove
    \/ CmdFreeze
    \/ CmdUnfreeze

\* ------------------------------------------------ rendering commit messages

\* RevList::from_commits: the commits collected in the order given.
RevListFromCommits(list) == [k \in 1..Len(list) |-> list[k]]

\* The source names a commit message is rendered for.
MsgNames == { <<"f", "a", "k", "e", "_", "1">>, <<"f", "a", "k", "e", "_", "2">> }

\* The revisions of the rendered summaries and commits: hashes longer than
\* their abbreviation.
OldRevision == <<"0", "1", "2", "3", "4", "5", "6", "7", "8", "9">>

NewRevision == <<"a", "b", "c", "d", "e", "f", "0", "1", "2", "3">>

\* The commits of the rendered rev lists: one with a body after its subject,
\* one with a subject only.
CommitPool ==
    { CommitFromStr(NewRevision, <<"f", "i", "x", " ", "i", "t", "\n", "\n", "b", "o", "d", "y">>),
      CommitFromStr(OldRevision, <<"a", "d", "d", " ", "x">>) }

RevListsToRender ==
    UNION { { RevListFromCommits(c) : c \in [1..len -> CommitPool] } : len \in 0..MaxCommits }

\* The summaries update() and bot_fallible make: without and with a rev list.
SummariesToRender ==
    { UpdateSummaryNew(OldRevision, NewRevision) }
    \cup { AddRevList(UpdateSummaryNew(OldRevision, NewRevision), revs) :
             revs \in RevListsToRender }

\* CommitMessage::new()
InitMsg ==
    /\ msg = <<>>
    /\ rendered = <<>>
    /\ log_pairs = <<>>
    /\ rev_lists = <<>>
    /\ lock_doc = <<>>
    /\ lock_out = <<>>
    /\ IdleSrc
    /\ IdleBot
    /\ IdleCmd
    /\ IdleExt

\* commit_message.add_summary(name, summary)
MsgAddSummary ==
    /\ Len(rendered) = 0
    /\ Len(msg) < MaxPairs
    /\ \E name \in MsgNames, s \in SummariesToRender :
          msg' = CommitMessageAddSummary(msg, name, s)
    /\ UNCHANGED <<rendered, log_pairs, rev_lists, lock_doc, lock_out>>
    /\ UNCHANGED <<srcVars, botVars, cmdVars, extVars>>

\* commit_message.to_string()
MsgRender ==
    /\ Len(rendered) = 0
    /\ rendered' = CommitMessageDisplay(msg)
    /\ UNCHANGED <<msg, log_pairs, rev_lists, lock_doc, lock_out>>
    /\ UNCHANGED <<srcVars, botVars, cmdVars, extVars>>

NextMsg ==
    \/ MsgAddSummary
    \/ MsgRender

\* A revision shorter than its abbreviation, as RevList::from_git_output
\* takes it from a line "abc fix".
ShortRevision == <<"a", "b", "c">>

\* The commits of the rev lists rendered below: one with a short revision,
\* one with an empty message.
ShortCommitPool ==
    { CommitFromStr(ShortRevision, <<"f", "i", "x">>),
      CommitFromStr(NewRevision, <<>>) }

ShortSummaries ==
    { UpdateSummaryNew(OldRevision, NewRevision) }
    \cup { AddRevList(UpdateSummaryNew(OldRevision, NewRevision), RevListFromCommits(c)) :
             c \in UNION { [1..len -> ShortCommitPool] : len \in 0..MaxCommits } }

\* CommitMessage::new()
InitShort ==
    /\ msg = <<>>
    /\ rendered = <<>>
    /\ log_pairs = <<>>
    /\ rev_lists = <<>>
    /\ lock_doc = <<>>
    /\ lock_out = <<>>
    /\ IdleSrc
    /\ IdleBot
    /\ IdleCmd
    /\ IdleExt

\* commit_message.add_summary(name, summary)
ShortAddSummary ==
    /\ Len(rendered) = 0
    /\ Len(msg) < MaxPairs
    /\ \E name \in MsgNames, s \in ShortSummaries :
          msg' = CommitMessageAddSummary(msg, name, s)
    /\ UNCHANGED <<rendered, log_pairs, rev_lists, lock_doc, lock_out>>
    /\ UNCHANGED <<srcVars, botVars, cmdVars, extVars>>

\* commit_message.to_string()
ShortToString ==
    /\ Len(rendered) = 0
    /\ rendered' = Unwind(CommitMessageDisplay(msg))
    /\ UNCHANGED <<msg, log_pairs, rev_lists, lock_doc, lock_out>>
    /\ UNCHANGED <<srcVars, botVars, cmdVars, extVars>>

\* commit_message.body()
ShortBody ==
    /\ Len(rendered) = 0
    /\ Len(msg) > 0
    /\ rendered' = Unwind(CommitMessageBody(msg))
    /\ UNCHANGED <<msg, log_pairs, rev_lists, lock_doc, lock_out>>
    /\ UNCHANGED <<srcVars, botVars, cmdVars, extVars>>

NextShort ==
    \/ ShortAddSummary
    \/ ShortToString
    \/ ShortBody

\* ------------------------------------------------------------ rev lists

\* str::split_once(' '): the text before and after the first space, if any.
SplitOnce(s, c) ==
    LET k == Find(s, c)
    IN  IF k = 0
        THEN [some |-> FALSE, left |-> <<>>, right |-> <<>>]
        ELSE [some |-> TRUE, left |-> SubSeq(s, 1, k - 1),
              right |-> SubSeq(s, k + 1, Len(s))]

\* The text before and after the last c of s, if any.
SplitOnceAtLast(s, c) ==
    IF \E k \in 1..Len(s) : s[k] = c
    THEN LET k == CHOOSE j \in 1..Len(s) :
                      s[j] = c /\ \A q \in (j + 1)..Len(s) : s[q] # c
         IN  [some |-> TRUE, left |-> SubSeq(s, 1, k - 1),
              right |-> SubSeq(s, k + 1, Len(s))]
    ELSE [some |-> FALSE, left |-> <<>>, right |-> <<>>]

\* from_git_output splitting each line at its last space.
RevListFromGitOutputSplitsLast(s) ==
    LET kept == SelectSeq(Lines(s), LAMBDA line : SplitOnceAtLast(line, " ").some)
    IN  [k \in 1..Len(kept) |->
            CommitFromStr(SplitOnceAtLast(kept[k], " ").left,
                          SplitOnceAtLast(kept[k], " ").right)]

\* RevList::from_git_output: a commit for every line that has a space.
RevListFromGitOutput(s) ==
    LET kept == SelectSeq(Lines(s), LAMBDA line : SplitOnce(line, " ").some)
    IN  [k \in 1..Len(kept) |->
            CommitFromStr(SplitOnce(kept[k], " ").left, SplitOnce(kept[k], " ").right)]

\* A commit log as text: a line "<revision> <message>" for each pair.
LogText(pairs) ==
    Concat([k \in 1..Len(pairs) |->
               pairs[k].revision \o <<" ">> \o pairs[k].message \o <<"\n">>])

\* The abbreviated hashes of the logged commits.
LogRevisions == { <<"8", "a", "c", "8", "5", "c", "d">>, <<"6", "f", "6", "d", "f", "8", "7">> }

\* The messages of the logged commits: a word, two words, none, two lines,
\* and one that ends with a carriage return.
LogMessages == { <<"f", "i", "x">>, <<"a", " ", "b">>, <<>>, <<"x", "\n", "y", " ", "z">>, <<"x", "\r">> }

LogPairs == { CommitFromStr(r, m) : r \in LogRevisions, m \in LogMessages }

InitRev ==
    /\ log_pairs \in UNION { [1..len -> LogPairs] : len \in 0..MaxCommits }
    /\ rev_lists = <<>>
    /\ msg = <<>>
    /\ rendered = <<>>
    /\ lock_doc = <<>>
    /\ lock_out = <<>>
    /\ IdleSrc
    /\ IdleBot
    /\ IdleCmd
    /\ IdleExt

\* Both constructions for the same commits: RevList::from_git_output on the
\* text of the log, RevList::from_commits on the pairs.
RevBuild ==
    /\ Len(rev_lists) = 0
    /\ rev_lists' = << RevListFromGitOutput(LogText(log_pairs)),
                       RevListFromCommits(log_pairs) >>
    /\ UNCHANGED <<msg, rendered, log_pairs, lock_doc, lock_out>>
    /\ UNCHANGED <<srcVars, botVars, cmdVars, extVars>>

NextRev == RevBuild

\* ------------------------------------------------------------ lock file

\* A lock document is the sequence of its sources, each a name and the
\* sequence of its (key, value) members in the order of the text.

\* Whether a JSON object has a member with this key.
Has(fields, key) == \E k \in 1..Len(fields) : fields[k][1] = key

\* The value of the member with this key.
Field(fields, key) ==
    fields[CHOOSE k \in 1..Len(fields) : fields[k][1] = key][2]

\* Deserialize for lock::v1::GitSource: frozen and submodules have
\* #[serde(default)], lastModified is an Option.
DeserializeGitSource(fields) ==
    [type |-> "Git",
     fetch_type |-> Field(fields, "fetchType"),
     frozen |-> IF Has(fields, "frozen") THEN Field(fields, "frozen") ELSE FALSE,
     owner |-> "", repo |-> "",
     branch |-> Field(fields, "branch"),
     revision |-> Field(fields, "revision"),
     url |-> Field(fields, "url"),
     hash |-> Field(fields, "hash"),
     last_modified |-> IF Has(fields, "lastModified")
                       THEN Field(fields, "lastModified") ELSE NoTime,
     submodules |-> IF Has(fields, "submodules")
                    THEN Field(fields, "submodules") ELSE FALSE]

\* Deserialize for lock::v1::GitHubSource: frozen has #[serde(default)].
DeserializeGitHubSource(fields) ==
    [type |-> "GitHub",
     fetch_type |-> Field(fields, "fetchType"),
     frozen |-> IF Has(fields, "frozen") THEN Field(fields, "frozen") ELSE FALSE,
     owner |-> Field(fields, "owner"), repo |-> Field(fields, "repo"),
     branch |-> Field(fields, "branch"),
     revision |-> Field(fields, "revision"),
     url |-> Field(fields, "url"),
     hash |-> Field(fields, "hash"),
     last_modified |-> NoTime,
     submodules |-> FALSE]

\* Deserialize for lock::v1::Source, tagged by "type".
DeserializeSource(fields) ==
    IF Field(fields, "type") = "Git"
    THEN DeserializeGitSource(fields)
    ELSE DeserializeGitHubSource(fields)

\* From<lock::v1::Source> for Source
SourceFromV1(v) ==
    [kind |-> v.type, url |-> v.url, owner |-> v.owner, repo |-> v.repo,
     branch |-> v.branch, revision |-> v.revision, hash |-> v.hash,
     last_modified |-> v.last_modified, submodules |-> v.submodules,
     frozen |-> v.frozen]

\* From<Source> for lock::v1::Source: the fetch type follows the variant.
V1FromSource(s) ==
    [type |-> s.kind,
     fetch_type |-> IF s.kind = "Git" THEN "git" ELSE "tarball",
     frozen |-> s.frozen, owner |-> s.owner, repo |-> s.repo,
     branch |-> s.branch, revision |-> s.revision, url |-> s.url, hash |-> s.hash,
     last_modified |-> s.last_modified, submodules |-> s.submodules]

\* Serialize for lock::v1::GitSource: the tag, then the fields as declared;
\* frozen is skipped when false, lastModified when None, submodules never.
SerializeGitSource(v) ==
    << <<"type", "Git">>, <<"fetchType", v.fetch_type>> >>
    \o (IF v.frozen THEN << <<"frozen", TRUE>> >> ELSE <<>>)
    \o << <<"branch", v.branch>>, <<"revision", v.revision>>,
          <<"url", v.url>>, <<"hash", v.hash>> >>
    \o (IF v.last_modified # NoTime
        THEN << <<"lastModified", v.last_modified>> >> ELSE <<>>)
    \o << <<"submodules", v.submodules>> >>

\* Serialize for lock::v1::GitHubSource
SerializeGitHubSource(v) ==
    << <<"type", "GitHub">>, <<"fetchType", v.fetch_type>> >>
    \o (IF v.frozen THEN << <<"frozen", TRUE>> >> ELSE <<>>)
    \o << <<"owner", v.owner>>, <<"repo", v.repo>>, <<"branch", v.branch>>,
          <<"revision", v.revision>>, <<"url", v.url>>, <<"hash", v.hash>> >>

\* Serialize for lock::v1::Source
SerializeSource(v) ==
    IF v.type = "Git" THEN SerializeGitSource(v) ELSE SerializeGitHubSource(v)

\* serde_json::from_str::<lock::v1::Lock>, then Sources::from.
SourcesFromDocument(doc) ==
    [name \in { doc[k][1] : k \in 1..Len(doc) } |->
        SourceFromV1(DeserializeSource(
            doc[CHOOSE k \in 1..Len(doc) : doc[k][1] = name][2]))]

\* Sources::into_latest_lock, then serde_json::to_string_pretty: the sources
\* in the order of the BTreeMap.
DocumentFromSources(registry) ==
    [k \in 1..Len(SourcesNames(registry)) |->
        << SourcesNames(registry)[k],
           SerializeSource(V1FromSource(registry[SourcesNames(registry)[k]])) >>]

\* How an optional boolean member can stand in a document.
Optional == {"omitted", "false", "true"}

OptionalMember(key, how) ==
    IF how = "omitted" THEN <<>> ELSE << <<key, how = "true">> >>

\* The text of a Git source, its optional members present or omitted.
GitSourceText(frozen, stamped, submodules) ==
    << <<"type", "Git">>, <<"fetchType", "git">> >>
    \o OptionalMember("frozen", frozen)
    \o << <<"branch", "main">>, <<"revision", 1>>, <<"url", GitRepoUrl>>,
          <<"hash", PrefetchGit(GitRepoUrl, 1, submodules = "true")>> >>
    \o (IF stamped THEN << <<"lastModified", GetLastModified(GitRepoUrl, 1)>> >> ELSE <<>>)
    \o OptionalMember("submodules", submodules)

\* The text of a GitHub source, frozen present or omitted.
GitHubSourceText(frozen) ==
    << <<"type", "GitHub">>, <<"fetchType", "tarball">> >>
    \o OptionalMember("frozen", frozen)
    \o << <<"owner", "owner">>, <<"repo", "repo">>, <<"branch", "main">>,
          <<"revision", 1>>, <<"url", GitHubSourceUrl("owner", "repo", 1)>>,
          <<"hash", PrefetchTarball(GitHubSourceUrl("owner", "repo", 1))>> >>

SourceTexts ==
    { GitSourceText(frozen, stamped, submodules) :
        frozen \in Optional, stamped \in BOOLEAN, submodules \in Optional }
    \cup { GitHubSourceText(frozen) : frozen \in Optional }

\* The valid documents of 1..MaxSources sources, sorted by name.
Documents ==
    UNION { { [k \in 1..len |-> <<k, texts[k]>>] : texts \in [1..len -> SourceTexts] } :
            len \in 1..MaxSources }

InitLock ==
    /\ lock_doc \in Documents
    /\ lock_out = <<>>
    /\ msg = <<>>
    /\ rendered = <<>>
    /\ log_pairs = <<>>
    /\ rev_lists = <<>>
    /\ IdleSrc
    /\ IdleBot
    /\ IdleCmd
    /\ IdleExt

\* tests::parse_and_convert: parse, convert to Sources, convert to the latest
\* lock, serialize.
LockRoundTrip ==
    /\ Len(lock_out) = 0
    /\ lock_out' = DocumentFromSources(SourcesFromDocument(lock_doc))
    /\ UNCHANGED <<lock_doc, msg, rendered, log_pairs, rev_lists>>
    /\ UNCHANGED <<srcVars, botVars, cmdVars, extVars>>

NextLock == LockRoundTrip

\* ------------------------------------------------------------------ forges

\* How a request to the forge ends: send() fails, the status is not a
\* success, the status is a success and the body cannot be decoded, or the
\* status is a success and the body is what was asked for.
HttpOutcomes == {"send_error", "status_error", "bad_json", "ok"}

\* The forge acted on the request: it answered with a success status.
Accepted(outcome) == outcome \in {"bad_json", "ok"}

\* labels.split(',') over LON_LABELS: unset or empty gives one empty label.
ForgeLabels == { <<"">>, <<"a">>, <<"a", "b">> }

\* format!("lon: update {name}")
PullRequestTitle(name) == <<"lon: update ", name>>

\* PullRequestResponse::html_url of the pull request the forge made for branch.
HtmlUrl(branch) == <<"https://forge/pulls/", branch>>

\* What open_pull_request returns.
ForgeOk(url) == [ok |-> TRUE, url |-> url, err |-> ""]

ForgeErr(op) == [ok |-> FALSE, url |-> <<>>, err |-> op]

\* add_labels whose error is logged and not returned.
AfterLabelsTolerated(outcome, url) == ForgeOk(url)

\* self.add_labels(pull_request_response.number)?; Ok(pull_request_response.html_url)
AfterLabels(outcome, url) ==
    IF outcome = "ok" THEN ForgeOk(url) ELSE ForgeErr("add_labels")

\* GitHub::from_env / Forgejo::from_env, and the arguments bot_fallible gives
\* to open_pull_request.
InitForge ==
    /\ \E kind \in {"GitHub", "Forgejo"}, name \in Names, labels \in ForgeLabels :
          forge = [pc |-> "get_repository", kind |-> kind, labels |-> labels,
                   branch |-> LonBranch(name), name |-> name,
                   requests |-> <<>>, pulls |-> {}, labelled |-> {},
                   ret |-> ForgeErr("")]
    /\ hist = [pc |-> "idle"]
    /\ IdleSrc
    /\ IdleBot
    /\ IdleCmd
    /\ IdleFmt

\* open_pull_request: self.get_repository()?
ForgeGetRepository ==
    /\ forge.pc = "get_repository"
    /\ \E outcome \in HttpOutcomes :
          forge' = [forge EXCEPT
                      !.requests = Append(@, [op |-> "get_repository",
                                              outcome |-> outcome]),
                      !.pc = IF outcome = "ok" THEN "pulls" ELSE "done",
                      !.ret = IF outcome = "ok" THEN @ ELSE ForgeErr("get_repository")]
    /\ UNCHANGED <<srcVars, botVars, cmdVars, fmtVars, hist>>

\* open_pull_request: the POST to {repo}/pulls, the status check and the
\* decoding of the response.
ForgePostPulls ==
    /\ forge.pc = "pulls"
    /\ \E outcome \in HttpOutcomes :
          forge' = [forge EXCEPT
                      !.requests = Append(@, [op |-> "pulls", outcome |-> outcome]),
                      !.pulls = IF Accepted(outcome)
                                THEN @ \cup {[head |-> forge.branch,
                                              title |-> PullRequestTitle(forge.name),
                                              html_url |-> HtmlUrl(forge.branch)]}
                                ELSE @,
                      !.pc = IF outcome = "ok" THEN "add_labels" ELSE "done",
                      !.ret = IF outcome = "ok" THEN @ ELSE ForgeErr("pulls")]
    /\ UNCHANGED <<srcVars, botVars, cmdVars, fmtVars, hist>>

\* open_pull_request: self.add_labels(number)? and the return of html_url.
ForgeAddLabels ==
    /\ forge.pc = "add_labels"
    /\ \E outcome \in HttpOutcomes \ {"bad_json"} :
          forge' = [forge EXCEPT
                      !.requests = Append(@, [op |-> "add_labels",
                                              outcome |-> outcome]),
                      !.labelled = IF Accepted(outcome)
                                   THEN { forge.labels[k] : k \in 1..Len(forge.labels) }
                                   ELSE @,
                      !.pc = "done",
                      !.ret = AfterLabels(outcome, HtmlUrl(forge.branch))]
    /\ UNCHANGED <<srcVars, botVars, cmdVars, fmtVars, hist>>

NextForge ==
    \/ ForgeGetRepository
    \/ ForgePostPulls
    \/ ForgeAddLabels

\* ------------------------------------------------- the history of an update

\* str::trim_end
RECURSIVE TrimEnd(_)
TrimEnd(s) ==
    IF Len(s) > 0 /\ s[Len(s)] \in {" ", "\n", "\r", "\t"}
    THEN TrimEnd(SubSeq(s, 1, Len(s) - 1))
    ELSE s

\* The hash of the k-th commit upstream has after old_revision.
HistSha(k) == <<"c", "0", "0", "0", "0", "0">> \o Decimal(k) \o <<"f", "f", "f">>

\* The hash as git abbreviates it.
Abbrev(sha) == SubSeq(sha, 1, 7)

\* The messages of the upstream commits: a subject, a subject of two words,
\* a subject with a body.
HistMessages == { <<"f", "i", "x">>, <<"a", " ", "b">>, <<"x", "\n", "\n", "y">> }

\* The commits upstream has after old_revision up to new_revision, the oldest
\* first: one more than a rev list may hold at most.
Upstreams ==
    UNION { { [k \in 1..len |-> CommitFromStr(HistSha(k), m[k])] :
                m \in [1..len -> HistMessages] } : len \in 0..(MaxCommits + 1) }

\* The last count elements of a sequence, the newest first.
NewestFirst(list, count) ==
    LET n == IF count < Len(list) THEN count ELSE Len(list)
    IN  [k \in 1..n |-> list[Len(list) - k + 1]]

\* Iterator::take
Take(list, count) ==
    SubSeq(list, 1, IF count < Len(list) THEN count ELSE Len(list))

\* git rev-list --oneline --max-count <num_commits> old..new, in the repository
\* that holds the newest num_commits commits of new (fetch --depth): a line
\* with the abbreviated hash and the subject for each, the newest first.
GitRevListOutput(upstream, num_commits) ==
    LET fetched == NewestFirst(upstream, num_commits)
        listed == Take(fetched, num_commits)
    IN  LogText([k \in 1..Len(listed) |->
                    CommitFromStr(Abbrev(listed[k].revision), MessageSummary(listed[k]))])

\* The commits of GET {repo}/compare/{old}...{new}: GitHub lists them in
\* chronological order, each with its whole hash and message.
CompareCommitsAnswer(upstream) == upstream

\* Source::rev_list is called by bot_fallible with the summary of an update
\* and LON_LIST_COMMITS, which is positive there.
InitHist ==
    /\ \E kind \in {"Git", "GitHub"}, upstream \in Upstreams, count \in 1..MaxCommits :
          hist = [pc |-> "rev_list", kind |-> kind, upstream |-> upstream,
                  max_count |-> count, ok |-> FALSE, revs |-> <<>>]
    /\ forge = [pc |-> "idle"]
    /\ IdleSrc
    /\ IdleBot
    /\ IdleCmd
    /\ IdleFmt

\* git::rev_list: any of the git commands may fail; otherwise the output of
\* git rev-list is trimmed and parsed.
HistGit ==
    /\ hist.pc = "rev_list"
    /\ hist.kind = "Git"
    /\ \E ok \in BOOLEAN :
          hist' = [hist EXCEPT
                     !.pc = "done",
                     !.ok = ok,
                     !.revs = IF ok
                              THEN RevListFromGitOutput(
                                       TrimEnd(GitRevListOutput(hist.upstream,
                                                                hist.max_count)))
                              ELSE <<>>]
    /\ UNCHANGED <<srcVars, botVars, cmdVars, fmtVars, forge>>

\* GitHubRepoApi::compare_commits: the request may fail; otherwise the first
\* num_commits commits of the answer are collected.
HistGitHub ==
    /\ hist.pc = "rev_list"
    /\ hist.kind = "GitHub"
    /\ \E ok \in BOOLEAN :
          hist' = [hist EXCEPT
                     !.pc = "done",
                     !.ok = ok,
                     !.revs = IF ok
                              THEN RevListFromCommits(
                                       Take(CompareCommitsAnswer(hist.upstream),
                                            hist.max_count))
                              ELSE <<>>]
    /\ UNCHANGED <<srcVars, botVars, cmdVars, fmtVars, forge>>

NextHist ==
    \/ HistGit
    \/ HistGitHub

\* ------------------------------------------------- state of the source API

\* A source as `add` or a valid lock file provides it: locked to a revision,
\* the hash and the derived fields being those of that revision.
InitialSources ==
    { GitSourceNew("main", r, sub, fr, st) :
        r \in Revs, sub \in BOOLEAN, fr \in BOOLEAN, st \in BOOLEAN }
    \cup { GitHubSourceNew("owner", "repo", "main", r, fr) : r \in Revs, fr \in BOOLEAN }

InitSrc ==
    /\ src \in InitialSources
    /\ call = NoCall
    /\ prev = NoPrev
    /\ IdleBot
    /\ IdleCmd
    /\ IdleExt
    /\ IdleFmt

\* Every caller (cli.rs: update, modify, bot_fallible) propagates an error
\* with `?` and drops the source: no call follows one that failed.
SrcAlive == call.res.ok

\* Record a call and shift the previous one. `tip` is the newest revision
\* upstream has, at the time of the call, on the branch the call tracks; `ls`
\* is what git ls-remote answers, kept if the call asked.
Recorded(op, branch, revision, tip, ls, r) ==
    /\ src' = r.src
    /\ call' = [op |-> op, arg_branch |-> branch, arg_revision |-> revision,
                pre |-> src, tip |-> tip,
                answer |-> IF r.lookups = 1 THEN ls ELSE NoAnswer,
                res |-> Outcome(r)]
    /\ prev' = [op |-> call.op, some |-> call.res.some, tip |-> call.tip]
    /\ UNCHANGED <<botVars, cmdVars, fmtVars, extVars>>

\* source.update()
SrcUpdate ==
    /\ SrcAlive
    /\ \E tip \in Revs :
          \E env \in Envs(tip) :
              Recorded("update", NoBranch, NoRev, tip, env.ls, SourceUpdate(src, env))

\* source.modify(branch, revision)
SrcModify ==
    /\ SrcAlive
    /\ \E branch \in Branches \cup {NoBranch}, revision \in Revs \cup {NoRev} :
          \E in \in ModifyEnvs(src, branch, revision) :
              Recorded("modify", branch, revision, in[1], in[2].ls,
                       SourceModify(src, branch, revision, in[2]))

\* source.freeze()
SrcFreeze ==
    /\ SrcAlive
    /\ Recorded("freeze", NoBranch, NoRev, NoRev, NoAnswer, Untouched(SourceFreeze(src)))

\* source.unfreeze()
SrcUnfreeze ==
    /\ SrcAlive
    /\ Recorded("unfreeze", NoBranch, NoRev, NoRev, NoAnswer, Untouched(SourceUnfreeze(src)))

NextSrc ==
    \/ SrcUpdate
    \/ SrcModify
    \/ SrcFreeze
    \/ SrcUnfreeze

NextBot ==
    \/ BotStart
    \/ BotRead
    \/ BotNext
    \/ BotCheckoutBase
    \/ BotCreateBranch
    \/ BotUpdate
    \/ BotRevList
    \/ BotWrite
    \/ BotCommit
    \/ BotPush
    \/ BotOpenPullRequest
    \/ BotRestore

SpecBot == InitBot /\ [][NextBot]_vars

SpecSrc == InitSrc /\ [][NextSrc]_vars

SpecCmd == InitCmd /\ [][NextCmd]_vars

SpecMsg == InitMsg /\ [][NextMsg]_vars

SpecRev == InitRev /\ [][NextRev]_vars

SpecShort == InitShort /\ [][NextShort]_vars

SpecForge == InitForge /\ [][NextForge]_vars

SpecHist == InitHist /\ [][NextHist]_vars

SpecLock == InitLock /\ [][NextLock]_vars

\* ---------------------------------------------------- properties of the bot run

\* The steps of a source's cycle whose error `?` propagates.
FatalOps ==
    {"checkout_base", "create_branch", "update", "rev_list", "write", "commit", "push"}

Steps == 1..Len(trace)

FailedPullRequest(k) == trace[k].op = "open_pull_request" /\ ~trace[k].ok

\* C1: a failed open_pull_request, for a source whose branch was committed
\* and pushed, is logged as a warning; the loop goes on with the next name;
\* the pushed branch and its commit stay; the failure alone does not make the
\* run return an error.
C1_ForgeFailureIsIsolated ==
    /\ \A k \in Steps :
          FailedPullRequest(k) =>
              LET name == trace[k].name
              IN  /\ name \in warnings
                  /\ k = Len(trace) =>
                        /\ pc \in {"loop", "checkout_base", "restore"}
                        /\ i = name + 1
                        /\ result.ok
                  /\ k < Len(trace) =>
                        \/ trace[k + 1].name > name
                        \/ trace[k + 1].op = "restore"
                  /\ remote[LonBranch(name)] # NoCommit
                  /\ commits[remote[LonBranch(name)]].name = name
                  /\ refs[LonBranch(name)] = remote[LonBranch(name)]
    /\ pc = "done" =>
          /\ ret.err # "open_pull_request"
          /\ (\A k \in Steps : ~trace[k].ok => FailedPullRequest(k)) => ret.ok

\* C1 witness: the forge request of source 1 failed, the one of source 2
\* opened a pull request, and the run returned Ok.
C1_Witness ==
    /\ pc = "done"
    /\ ret.ok
    /\ \E k \in Steps : FailedPullRequest(k) /\ trace[k].name = 1
    /\ \E pr \in pulls : pr.name = 2

\* C2: a failure of any other step of a source's cycle (checkout of base,
\* branch creation, update, rev_list, lock write, commit, push) aborts the
\* run: no step of a later source follows and bot returns an error.
C2_OtherFailuresAbort ==
    \A k \in Steps :
        (trace[k].op \in FatalOps /\ ~trace[k].ok) =>
            /\ \A j \in Steps : j > k => trace[j].op = "restore"
            /\ pc \in {"restore", "done"}
            /\ ~result.ok
            /\ pc = "done" => ~ret.ok

\* C2 witness: the push of source 1 failed while source 2 was not frozen, and
\* the run ended with an error.
C2_Witness ==
    /\ pc = "done"
    /\ ~ret.ok
    /\ ~sources[2].frozen
    /\ \E k \in Steps : trace[k].op = "push" /\ ~trace[k].ok /\ trace[k].name = 1

\* C3: a run that captured a base reference ends with a checkout of that
\* reference as its last step, after a complete loop and after an abort
\* alike, and every push made stays as it was made.
C3_EndsWithCheckoutOfBase ==
    (pc = "done" /\ base_ref # NoRef) =>
        /\ trace[Len(trace)].op = "restore"
        /\ trace[Len(trace)].ref = base_ref
        /\ base_ref = start.head
        /\ \A k \in Steps :
              (trace[k].op = "push" /\ trace[k].ok) =>
                  remote[trace[k].ref] = trace[k].commit

\* C3 witness: source 1 was pushed, the cycle of source 2 aborted, and the
\* run has returned.
C3_Witness ==
    /\ pc = "done"
    /\ ~result.ok
    /\ \E k \in Steps : trace[k].op = "push" /\ trace[k].ok /\ trace[k].name = 1
    /\ \E k \in Steps : trace[k].op \in FatalOps /\ ~trace[k].ok /\ trace[k].name = 2

\* C4: when a run returns, its final checkout having succeeded, HEAD is the
\* base reference and lon.lock has the content it had when the run started.
C4_TreeIsRestored ==
    (pc = "done" /\ base_ref # NoRef /\ trace[Len(trace)].ok) =>
        /\ head = start.head
        /\ work = start.lock

\* C5: the registry written and committed in the cycle of a source differs
\* from the registry loaded at the start of the run in that source's entry
\* only.
C5_OnlyOwnEntryDiffers ==
    /\ pc \in {"commit", "push", "open_pull_request"} =>
          /\ \A n \in Names \ {Name} : work[n] = sources[n]
          /\ work[Name] # sources[Name]
    /\ \A c \in 3..Len(commits) :
          /\ \A n \in Names \ {commits[c].name} : commits[c].lock[n] = sources[n]
          /\ commits[c].lock[commits[c].name] # sources[commits[c].name]
          /\ sources = start.lock

\* C5 witness: the run committed an update of source 1, then one of source 2.
C5_Witness ==
    /\ Len(commits) = 4
    /\ commits[3].name = 1
    /\ commits[4].name = 2

\* C6: a frozen source is skipped without error: no step is made for it, its
\* branch is neither created nor reset, nothing is committed, pushed or
\* requested for it, and the loop goes on with the next name.
C6_FrozenIsSkipped ==
    pc \notin {"start", "read"} =>
        \A n \in Names :
            sources[n].frozen =>
                /\ \A k \in Steps : trace[k].name = n => trace[k].op = "skip"
                /\ refs[LonBranch(n)] = start.refs[LonBranch(n)]
                /\ remote[LonBranch(n)] = NoCommit
                /\ \A pr \in pulls : pr.name # n
                /\ \A c \in 1..Len(commits) : commits[c].name # n
                /\ (Len(trace) > 0 /\ trace[Len(trace)].name = n) =>
                      /\ pc \in {"loop", "checkout_base", "restore"}
                      /\ i = n + 1
                      /\ result.ok

\* C6 witness: source 1 is frozen and was skipped, source 2 was updated and
\* committed in the same run.
C6_Witness ==
    /\ pc = "done"
    /\ sources[1].frozen
    /\ \E k \in Steps : trace[k].op = "skip" /\ trace[k].name = 1
    /\ \E c \in 1..Len(commits) : commits[c].name = 2

\* ------------------------------------------------- properties of the source API

\* hash and lastModified/url are those of the source's revision.
Consistent(s) ==
    IF s.kind = "Git"
    THEN /\ s.hash = PrefetchGit(s.url, s.revision, s.submodules)
         /\ s.last_modified \in {NoTime, GetLastModified(s.url, s.revision)}
    ELSE /\ s.url = GitHubSourceUrl(s.owner, s.repo, s.revision)
         /\ s.hash = PrefetchTarball(GitHubSourceUrl(s.owner, s.repo, s.revision))

\* C7: update() on a frozen source (Git or GitHub) returns Ok(None), makes no
\* newest-revision lookup, computes no hash and leaves every field unchanged.
C7_FrozenUpdateIsNoop ==
    (call.op = "update" /\ call.pre.frozen)
        => /\ call.res.ok
           /\ ~call.res.some
           /\ call.res.lookups = 0
           /\ call.res.hashes = 0
           /\ call.res.stamps = 0
           /\ src = call.pre

\* C7 witness: update() was called on a frozen Git source while upstream had
\* a revision newer than the locked one.
C7_Witness ==
    /\ call.op = "update"
    /\ call.pre.frozen
    /\ call.pre.kind = "Git"
    /\ call.tip # call.pre.revision

\* The lookup of the last call, if it made one, answered the upstream tip.
LookupAnsweredTip == call.res.lookups = 1 => call.res.newest = call.tip

\* C8: an update() that immediately follows an update() that returned without
\* error, upstream's newest revision being the same for both, returns Ok(None),
\* computes no hash and leaves revision, hash, lastModified and url unchanged.
C8_UpdateIdempotent ==
    (/\ call.op = "update"
     /\ prev.op = "update"
     /\ call.tip = prev.tip
     /\ LookupAnsweredTip)
        => /\ call.res.ok
           /\ ~call.res.some
           /\ call.res.hashes = 0
           /\ src.revision = call.pre.revision
           /\ src.hash = call.pre.hash
           /\ src.last_modified = call.pre.last_modified
           /\ src.url = call.pre.url

\* C8 witness: the first update() returned a summary, the second one looked
\* the same tip up again.
C8_Witness ==
    /\ call.op = "update"
    /\ prev.op = "update"
    /\ prev.some
    /\ call.tip = prev.tip
    /\ call.res.lookups = 1
    /\ call.res.newest = call.tip

\* The last call re-locked the source and returned success.
Relocked ==
    /\ call.op \in {"update", "modify"}
    /\ call.res.ok
    /\ call.res.hashes = 1

\* The revision the last call was asked to lock: the one given to modify,
\* else the newest one of the tracked branch.
Requested ==
    IF call.op = "modify" /\ call.arg_revision # NoRev
    THEN call.arg_revision
    ELSE call.tip

\* C9: after a re-lock that returned success (through update or modify) the
\* revision is the requested one, the hash is the one computed for it, a Git
\* source's lastModified is the timestamp of it and a GitHub source's url is
\* https://github.com/<owner>/<repo>/archive/<revision>.tar.gz; a summary
\* reports the revision before the call and the revision after it.
C9_RelockIsExact ==
    /\ Relocked =>
          /\ src.revision = Requested
          /\ IF src.kind = "Git"
             THEN /\ src.hash = PrefetchGit(src.url, Requested, src.submodules)
                  /\ src.last_modified = GetLastModified(src.url, Requested)
             ELSE /\ src.url = <<"https://github.com", "/", src.owner, "/", src.repo,
                                 "/archive/", Requested, ".tar.gz">>
                  /\ src.hash = PrefetchTarball(src.url)
    /\ (call.op = "update" /\ call.res.ok /\ call.res.some) =>
          /\ call.res.hashes = 1
          /\ call.res.old_revision = call.pre.revision
          /\ call.res.new_revision = src.revision
          /\ call.res.old_revision # call.res.new_revision

\* C9 witness: modify(branch, no revision) re-locked a Git source to the tip
\* of the new branch.
C9_Witness ==
    /\ Relocked
    /\ call.op = "modify"
    /\ call.arg_revision = NoRev
    /\ src.kind = "Git"
    /\ src.revision # call.pre.revision

\* C10: in every state update and modify calls leave behind, a failed call's
\* state included, hash and lastModified/url are those of the revision.
C10_AlwaysConsistent == Consistent(src)

\* C11: when the lookup of the tracked branch answers no ref or more than one,
\* find_newest_revision fails (missing reference for none, ambiguity for
\* several); the update fails before any hash is computed and revision, hash
\* and the derived fields of the source stay as they were.
C11_BadLookupFailsEarly ==
    (/\ call.op \in {"update", "modify"}
     /\ call.res.lookups = 1
     /\ call.answer.ok
     /\ Len(call.answer.refs) # 1)
        => /\ ~call.res.ok
           /\ call.res.err = IF Len(call.answer.refs) = 0 THEN "missing" ELSE "ambiguous"
           /\ call.res.hashes = 0
           /\ call.res.stamps = 0
           /\ src.revision = call.pre.revision
           /\ src.hash = call.pre.hash
           /\ src.last_modified = call.pre.last_modified
           /\ src.url = call.pre.url
           /\ call.op = "update" => src = call.pre

\* C11 witness: update() of a GitHub source whose branch lookup answered two
\* refs, the first of them newer than the locked revision.
C11_Witness ==
    /\ call.op = "update"
    /\ call.pre.kind = "GitHub"
    /\ call.res.lookups = 1
    /\ call.answer.ok
    /\ Len(call.answer.refs) = 2
    /\ call.answer.refs[1] # call.pre.revision

\* The last call was modify(branch, no revision) with a branch other than the
\* tracked one, and it returned success.
BranchChanged ==
    /\ call.op = "modify"
    /\ call.arg_branch # NoBranch
    /\ call.arg_branch # call.pre.branch
    /\ call.arg_revision = NoRev
    /\ call.res.ok

\* The source tracks the branch modify was given and is locked to the newest
\* revision of it.
LockedToNewBranch ==
    /\ src.branch = call.arg_branch
    /\ src.revision = call.tip
    /\ Consistent(src)

BothGiven ==
    /\ call.op = "modify"
    /\ call.arg_branch # NoBranch
    /\ call.arg_branch # call.pre.branch
    /\ call.arg_revision # NoRev

\* C22: modify with a branch other than the current one and a revision other
\* than the current one makes no newest-revision lookup, sets the branch and
\* locks to the given revision: one hash computation for that revision and,
\* on success, the revision, hash and lastModified/url of it. modify with a
\* revision equal to the current one computes no hash and leaves revision,
\* hash, lastModified and url as they were.
C22_PinnedRevisionBypassesLookup ==
    /\ (BothGiven /\ call.arg_revision # call.pre.revision) =>
          /\ call.res.lookups = 0
          /\ src.branch = call.arg_branch
          /\ call.res.hashes = 1
          /\ call.res.lock_rev = call.arg_revision
          /\ call.res.ok =>
                /\ src.revision = call.arg_revision
                /\ IF src.kind = "Git"
                   THEN /\ src.hash = PrefetchGit(src.url, call.arg_revision,
                                                  src.submodules)
                        /\ src.last_modified =
                              GetLastModified(src.url, call.arg_revision)
                   ELSE /\ src.url = GitHubSourceUrl(src.owner, src.repo,
                                                     call.arg_revision)
                        /\ src.hash = PrefetchTarball(src.url)
    /\ (/\ call.op = "modify"
        /\ call.arg_revision # NoRev
        /\ call.arg_revision = call.pre.revision) =>
          /\ call.res.ok
          /\ call.res.lookups = 0
          /\ call.res.hashes = 0
          /\ call.res.stamps = 0
          /\ src.revision = call.pre.revision
          /\ src.hash = call.pre.hash
          /\ src.last_modified = call.pre.last_modified
          /\ src.url = call.pre.url

\* C22 witness: modify moved a frozen GitHub source to another branch and
\* locked it to the revision given.
C22_Witness ==
    /\ BothGiven
    /\ call.arg_revision # call.pre.revision
    /\ call.res.ok
    /\ call.pre.frozen
    /\ src.kind = "GitHub"
    /\ src.revision = call.arg_revision

\* ------------------------------------------- properties of direct commands

CmdSteps == 1..Len(cmd_log)

\* The calls of one kind a command made.
CmdCalls(op) == { k \in CmdSteps : cmd_log[k].op = op }

\* The updates that re-locked their source: those that produced a summary.
CmdSummaries == { k \in CmdCalls("update") : cmd_log[k].ok /\ cmd_log[k].hashes = 1 }

\* The command line named a source the lock file read does not hold.
SelectedNameMissing ==
    /\ cmd.name # NoName
    /\ cmd.name \notin DOMAIN cmd.lock
    /\ \E k \in CmdCalls("read") : cmd_log[k].ok

SomeUpdateFailed == \E k \in CmdCalls("update") : ~cmd_log[k].ok

\* C13: in the update command, when a selected name does not exist or the
\* update of a source fails, the command returns an error and the lock file is
\* not written, whatever sources were updated in memory before.
C13_FailedBatchWritesNothing ==
    (cmd.op = "update" /\ (SelectedNameMissing \/ SomeUpdateFailed)) =>
        /\ CmdCalls("write") = {}
        /\ CmdCalls("commit") = {}
        /\ lock_file = cmd.lock
        /\ SomeUpdateFailed => cmd_pc = "done"
        /\ cmd_pc \in {"update_loop", "done"}
        /\ cmd_pc = "done" => ~cmd_ret.ok

\* C13 witness: source 1 was updated in memory, then the update of source 2
\* failed and the command returned.
C13_Witness ==
    /\ cmd.op = "update"
    /\ cmd_pc = "done"
    /\ Len(commit_message) = 1
    /\ commit_message[1][1] = 1
    /\ cmd_sources[1].revision # cmd.lock[1].revision
    /\ \E k \in CmdCalls("update") : ~cmd_log[k].ok /\ cmd_log[k].name = 2

\* C14: the update command writes the lock file at most once, only after
\* every selected source was processed, and then exactly when a source
\* produced a summary; without a summary nothing is written and no commit is
\* made.
C14_OneWriteAfterAllSources ==
    cmd.op = "update" =>
        /\ Cardinality(CmdCalls("write")) <= 1
        /\ Len(commit_message) = Cardinality(CmdSummaries)
        /\ CmdCalls("write") # {} =>
              /\ pos = Len(names) + 1
              /\ Cardinality(CmdCalls("update")) = Len(names)
              /\ \A k \in CmdCalls("update") : \A w \in CmdCalls("write") : k < w
        /\ (cmd_pc \in {"update_commit", "done"} /\ Len(names) > 0
            /\ Cardinality(CmdCalls("update")) = Len(names) /\ ~SomeUpdateFailed) =>
              (CmdCalls("write") # {} <=> CmdSummaries # {})
        /\ CmdSummaries = {} =>
              /\ CmdCalls("write") = {}
              /\ CmdCalls("commit") = {}
              /\ lock_file = cmd.lock
        /\ \A c \in CmdCalls("commit") : \E w \in CmdCalls("write") : w < c

\* C14 witness: update --commit of all sources, one of them up to date or
\* frozen and the other updated; the lock file was written once and committed.
C14_Witness ==
    /\ cmd.op = "update"
    /\ cmd.name = NoName
    /\ cmd_pc = "done"
    /\ cmd_ret.ok
    /\ Len(names) > Len(commit_message)
    /\ Cardinality(CmdCalls("write")) = 1
    /\ CmdCalls("commit") # {}
    /\ lock_file # cmd.lock

\* C20: add git / add github under a name the registry holds fails with
\* 'already exists' before any discovery or hash call; the entry is not
\* replaced, the registry and the lock file stay as they were.
C20_AddNeverReplaces ==
    (cmd.op \in {"add_git", "add_github"} /\ cmd.name \in DOMAIN cmd.lock) =>
        /\ CmdCalls("new") = {}
        /\ CmdCalls("write") = {}
        /\ \A k \in CmdSteps : cmd_log[k].lookups = 0 /\ cmd_log[k].hashes = 0
        /\ lock_file = cmd.lock
        /\ cmd_sources \in {EmptyRegistry, cmd.lock}
        /\ cmd_pc \in {"start", "done"}
        /\ cmd_pc = "done" =>
              /\ ~cmd_ret.ok
              /\ (\E k \in CmdCalls("read") : cmd_log[k].ok) => cmd_ret.err = "exists"

\* C20 witness: add github under the name of a source of the lock file
\* returned 'already exists'.
C20_Witness ==
    /\ cmd.op = "add_github"
    /\ cmd.name \in DOMAIN cmd.lock
    /\ cmd_pc = "done"
    /\ cmd_ret = Err("exists")

\* The command has returned.
CmdDone == cmd_pc = "done"

\* The registry `registry` with the frozen flag of `name` set to `flag` and
\* nothing else changed.
WithFrozen(registry, name, flag) ==
    [key \in DOMAIN registry |->
        IF key = name THEN [registry[key] EXCEPT !.frozen = flag] ELSE registry[key]]

\* C21: modify, remove, freeze and unfreeze given a name the registry does
\* not hold return an error, change no source and do not write the lock
\* file; freeze and unfreeze given a name it holds change the frozen flag of
\* that source and nothing else, and that registry is what they write.
C21_MissingNameFailsFlagOnly ==
    /\ (/\ CmdDone
        /\ cmd.op \in {"modify", "remove", "freeze", "unfreeze"}
        /\ cmd.name \notin DOMAIN cmd.lock) =>
          /\ ~cmd_ret.ok
          /\ lock_file = cmd.lock
          /\ CmdCalls("write") = {}
          /\ CmdCalls("lon_nix") = {}
          /\ CmdCalls(cmd.op) = {}
          /\ cmd_sources \in {cmd.lock, EmptyRegistry}
    /\ (/\ CmdDone
        /\ cmd.op \in {"freeze", "unfreeze"}
        /\ cmd.name \in DOMAIN cmd.lock
        /\ CmdCalls("read") # {}
        /\ \A k \in CmdCalls("read") : cmd_log[k].ok) =>
          /\ cmd_sources = WithFrozen(cmd.lock, cmd.name, cmd.op = "freeze")
          /\ lock_file \in {cmd.lock, cmd_sources}
          /\ cmd_ret.ok => lock_file = cmd_sources
          /\ \A k \in CmdSteps : cmd_log[k].lookups = 0 /\ cmd_log[k].hashes = 0

\* C21 witness: unfreeze of the frozen source 2 returned Ok with source 1
\* in the registry.
C21_Witness ==
    /\ CmdDone
    /\ cmd.op = "unfreeze"
    /\ cmd.name = 2
    /\ cmd_ret.ok
    /\ cmd.lock[2].frozen
    /\ ~lock_file[2].frozen
    /\ 1 \in DOMAIN lock_file

\* -------------------------------------------- properties of commit messages

Rendered == Len(rendered) > 0

RenderedLines == Lines(rendered)

\* The lines, among `lines`, that open a source's block.
BulletLines(lines) ==
    { k \in 1..Len(lines) : Len(lines[k]) > 0 /\ lines[k][1] = Bullet }

\* The k-th smallest of a set of line numbers.
Nth(set, k) == CHOOSE p \in set : Cardinality({ q \in set : q < p }) = k - 1

\* C16: a message of exactly one pair without history renders as
\* "lon: update <name>\n\n  <old_revision>\n-> <new_revision>\n" (the arrow
\* being U+2192); with any other number of pairs the title line is
\* "lon: update", without a name.
C16_SingleUpdateText ==
    Rendered =>
        /\ (Len(msg) = 1 /\ ~msg[1][2].has_rev_list) =>
              rendered = <<"l", "o", "n", ":", " ", "u", "p", "d", "a", "t", "e", " ">> \o msg[1][1] \o <<"\n", "\n", " ", " ">>
                         \o msg[1][2].old_revision \o <<"\n", "U+2192", " ">>
                         \o msg[1][2].new_revision \o <<"\n">>
        /\ Len(msg) # 1 => Head(RenderedLines) = <<"l", "o", "n", ":", " ", "u", "p", "d", "a", "t", "e">>

\* C16 witness: a message of one pair without a rev list was rendered.
C16_Witness ==
    /\ Rendered
    /\ Len(msg) = 1
    /\ ~msg[1][2].has_rev_list

\* C17: a message of two or more pairs renders one block per pair, in the
\* order the pairs were added, none dropped or merged; a block is a blank
\* line, "* <name>:", "    <old_revision>", "  -> <new_revision>" (bullet
\* U+2022, arrow U+2192).
C17_BlocksInInputOrder ==
    (Rendered /\ Len(msg) >= 2) =>
        LET lines == RenderedLines
            bullets == BulletLines(lines)
        IN  /\ Cardinality(bullets) = Len(msg)
            /\ \A k \in 1..Len(msg) :
                  LET p == Nth(bullets, k)
                  IN  /\ p > 1
                      /\ p + 2 <= Len(lines)
                      /\ lines[p - 1] = <<>>
                      /\ lines[p] = <<"U+2022", " ">> \o msg[k][1] \o <<":">>
                      /\ lines[p + 1] = <<" ", " ", " ", " ">> \o msg[k][2].old_revision
                      /\ lines[p + 2] =
                            <<" ", " ", "U+2192", " ">> \o msg[k][2].new_revision

\* C17 witness: fake_2 was added before fake_1 and the message was rendered.
C17_Witness ==
    /\ Rendered
    /\ Len(msg) = 2
    /\ msg[1][1] = <<"f", "a", "k", "e", "_", "2">>
    /\ msg[2][1] = <<"f", "a", "k", "e", "_", "1">>

\* The first line of a commit's message.
FirstLine(text) ==
    IF Find(text, "\n") = 0 THEN text ELSE SubSeq(text, 1, Find(text, "\n") - 1)

\* The history block of a summary as lines: a blank line, the header, one
\* line per commit.
HistoryLines(s, indent) ==
    << <<>>,
       Repeat(" ", indent) \o <<"L", "a", "s", "t", " ">> \o Decimal(Len(s.rev_list)) \o <<" ", "c", "o", "m", "m", "i", "t", "s", ":">> >>
    \o [k \in 1..Len(s.rev_list) |->
          Repeat(" ", indent + 2) \o SubSeq(s.rev_list[k].revision, 1, 7) \o <<" ">>
          \o FirstLine(s.rev_list[k].message)]

\* The lines the history block of the k-th pair takes.
HistoryLength(k) == IF msg[k][2].has_rev_list THEN 2 + Len(msg[k][2].rev_list) ELSE 0

\* C18: the history block of a summary with a rev list of n commits is a
\* blank line, "Last n commits:", then n lines in rev-list order, each the
\* first 7 characters of the revision and the first line of the message; a
\* message of several pairs indents the header and the commit lines by two
\* more spaces than a message of one pair; nothing else follows the block.
C18_HistoryBlock ==
    (Rendered /\ Len(msg) >= 1) =>
        LET lines == RenderedLines
            bullets == BulletLines(lines)
            begins == [k \in 1..Len(msg) |->
                         IF Len(msg) = 1 THEN 5 ELSE Nth(bullets, k) + 3]
        IN  \A k \in 1..Len(msg) :
                LET last == begins[k] + HistoryLength(k) - 1
                IN  /\ last <= Len(lines)
                    /\ msg[k][2].has_rev_list =>
                          SubSeq(lines, begins[k], last) =
                              HistoryLines(msg[k][2], IF Len(msg) = 1 THEN 0 ELSE 2)
                    /\ IF k = Len(msg)
                       THEN last = Len(lines)
                       ELSE last + 2 = begins[k + 1] - 3

\* C18 witness: a rendered message of two pairs, the second with a rev list of
\* two commits, one of them with a message of several lines.
C18_Witness ==
    /\ Rendered
    /\ Len(msg) = 2
    /\ msg[2][2].has_rev_list
    /\ Len(msg[2][2].rev_list) = 2
    /\ \E k \in 1..2 : Find(msg[2][2].rev_list[k].message, "\n") > 0

\* ------------------------------------------------- properties of rev lists

Built == Len(rev_lists) = 2

\* The message is one line of text: it has no line feed and does not end with
\* a carriage return.
OneLine(text) ==
    /\ \A k \in 1..Len(text) : text[k] # "\n"
    /\ Len(text) > 0 => text[Len(text)] # "\r"

\* C19 as stated, for every sequence of pairs: from_git_output on the text
\* with a line "<revision> <message>" per pair gives the commits from_commits
\* gives for the pairs, in the same order.
C19_PathsAgreeOnEveryLog ==
    Built => rev_lists[1] = rev_lists[2]

\* C19, for pairs whose message is one line of text: from_git_output on the
\* text with a line "<revision> <message>" per pair gives the commits
\* from_commits gives for the pairs, in the same order, one commit per line.
C19_PathsAgree ==
    (Built /\ \A k \in 1..Len(log_pairs) : OneLine(log_pairs[k].message)) =>
        /\ rev_lists[1] = rev_lists[2]
        /\ Len(rev_lists[1]) = Len(log_pairs)
        /\ \A k \in 1..Len(log_pairs) : rev_lists[1][k] = log_pairs[k]

\* C19 witness: both lists were built for two commits, one with a message of
\* two words and one with an empty message.
C19_Witness ==
    /\ Built
    /\ Len(log_pairs) = 2
    /\ log_pairs[1].message = <<"a", " ", "b">>
    /\ log_pairs[2].message = <<>>
    /\ rev_lists[1] = rev_lists[2]

\* ---------------------------------------------- properties of the lock file

\* C15: a valid version-1 lock document, whatever optional members (frozen,
\* lastModified, submodules) it has or omits, parsed into Sources and
\* serialized as the latest lock, is the same document: the same members,
\* values and order.
C15_RoundTrip ==
    Len(lock_out) > 0 => lock_out = lock_doc

\* ------------------------------------------- further properties of the bot run

\* The steps of a cycle that follow an update that returned a summary.
AfterSummaryOps == {"rev_list", "write", "commit", "push", "open_pull_request"}

\* source.update() returned Ok(None) at step k.
ReturnedNone(k) == trace[k].op = "update" /\ trace[k].ok /\ ~trace[k].some

\* source.update() returned Ok(Some(summary)) at step k.
ReturnedSummary(k) == trace[k].op = "update" /\ trace[k].ok /\ trace[k].some

\* C27: when the update of a source returns None, no history is fetched and
\* nothing is written, committed, pushed or requested for that source; the
\* branch created for it stays; the run is not in error because of it and
\* the loop goes on with the next name.
C27_NoUpdateIsSkipped ==
    \A k \in Steps :
        ReturnedNone(k) =>
            LET name == trace[k].name
            IN  /\ \A j \in Steps :
                      trace[j].name = name => trace[j].op \notin AfterSummaryOps
                /\ \A c \in 1..Len(commits) : commits[c].name # name
                /\ remote[LonBranch(name)] = NoCommit
                /\ \A pr \in pulls : pr.name # name
                /\ refs[LonBranch(name)] # NoCommit
                /\ k = Len(trace) =>
                      /\ pc \in {"loop", "checkout_base", "restore"}
                      /\ i = name + 1
                      /\ result.ok
                      /\ ~Dirty
                /\ k < Len(trace) =>
                      \/ trace[k + 1].name > name
                      \/ trace[k + 1].op = "restore"

\* C27 witness: the update of source 1 returned None, source 2 was updated
\* and a pull request opened for it, and the run returned Ok.
C27_Witness ==
    /\ pc = "done"
    /\ ret.ok
    /\ \E k \in Steps : ReturnedNone(k) /\ trace[k].name = 1
    /\ \E pr \in pulls : pr.name = 2
    /\ start.refs[LonBranch(1)] = NoCommit

\* C24: rev_list is called for a source exactly when the history limit is
\* greater than 0 and the update of that source returned a summary, right
\* after that update; with LON_LIST_COMMITS unset or 0 no history is fetched
\* and no commit message and no pull-request body carries a history block;
\* a failed rev_list aborts the run.
C24_HistoryOnlyWhenConfigured ==
    /\ \A k \in Steps :
          trace[k].op = "rev_list" =>
              /\ list_commits > 0
              /\ k > 1
              /\ ReturnedSummary(k - 1)
              /\ trace[k - 1].name = trace[k].name
    /\ \A k \in Steps :
          (ReturnedSummary(k) /\ list_commits > 0) =>
              IF k = Len(trace)
              THEN pc = "rev_list" /\ Name = trace[k].name
              ELSE trace[k + 1].op = "rev_list" /\ trace[k + 1].name = trace[k].name
    /\ lon_list_commits \in {"unset", "0"} =>
          /\ \A k \in Steps : trace[k].op # "rev_list"
          /\ \A c \in 1..Len(commits) : ~commits[c].summary.rev_list
          /\ \A pr \in pulls : ~pr.summary.rev_list
    /\ \A k \in Steps :
          (trace[k].op = "rev_list" /\ ~trace[k].ok) =>
              /\ \A j \in Steps : j > k => trace[j].op = "restore"
              /\ ~result.ok
              /\ pc = "done" => ~ret.ok

\* C24 witness: with a limit of 2 the history of source 1 was fetched and is
\* part of the pull request opened for it, while the update of source 2
\* returned None and no history was fetched for it.
C24_Witness ==
    /\ pc = "done"
    /\ lon_list_commits = "2"
    /\ \E k \in Steps : trace[k].op = "rev_list" /\ trace[k].ok /\ trace[k].name = 1
    /\ \E pr \in pulls : pr.name = 1 /\ pr.summary.rev_list
    /\ \E k \in Steps : ReturnedNone(k) /\ trace[k].name = 2

\* The steps that may come right before a step of a cycle.
StepsBefore(op) ==
    CASE op = "create_branch" -> {"checkout_base"}
      [] op = "update" -> {"create_branch"}
      [] op = "rev_list" -> {"update"}
      [] op = "write" -> {"update", "rev_list"}
      [] op = "commit" -> {"write"}
      [] op = "push" -> {"commit"}
      [] op = "open_pull_request" -> {"push"}
      [] OTHER -> {}

\* C25: the steps of a cycle happen in the order checkout of base, branch
\* creation, update, (history), lock file write, commit, force push, forge
\* request, each one once per source and right after the success of the one
\* before it for the same source; a branch is pushed only with the commit
\* made in this cycle, and a pull request is requested only for a branch
\* pushed in this run.
C25_StepsInOrder ==
    /\ \A k \in Steps :
          trace[k].op \in (FatalOps \cup {"open_pull_request"}) \ {"checkout_base"} =>
              /\ k > 1
              /\ trace[k - 1].op \in StepsBefore(trace[k].op)
              /\ trace[k - 1].name = trace[k].name
              /\ trace[k - 1].ok
              /\ trace[k - 1].op = "update" => trace[k - 1].some
    /\ \A j \in Steps, k \in Steps :
          (j < k /\ trace[j].name = trace[k].name /\ trace[k].name \in Names)
              => trace[j].op # trace[k].op
    /\ \A k \in Steps :
          (trace[k].op = "push" /\ trace[k].ok) =>
              /\ trace[k].ref = LonBranch(trace[k].name)
              /\ trace[k].commit = trace[k - 1].commit
              /\ trace[k].commit > start.commit
              /\ commits[trace[k].commit].name = trace[k].name
    /\ \A pr \in pulls :
          \E k \in Steps :
              /\ trace[k].op = "push" /\ trace[k].ok
              /\ trace[k].name = pr.name
              /\ trace[k].ref = pr.branch
              /\ remote[pr.branch] = trace[k].commit

\* C25 witness: a whole cycle with history was made for source 1, from the
\* checkout of base to an opened pull request.
C25_Witness ==
    /\ \E pr \in pulls : pr.name = 1 /\ pr.summary.rev_list
    /\ \A op \in FatalOps :
          \E k \in Steps : trace[k].op = op /\ trace[k].name = 1 /\ trace[k].ok

\* C26: every branch pushed is lon/<name> and carries one new commit whose
\* parent is the commit that was checked out when the run started, and the
\* base reference names that commit during the whole run.
C26_BranchOnBase ==
    /\ \A k \in Steps :
          (trace[k].op = "push" /\ trace[k].ok) =>
              /\ trace[k].ref = LonBranch(trace[k].name)
              /\ trace[k].commit > start.commit
              /\ commits[trace[k].commit].parent = start.commit
    /\ base_ref # NoRef => CommitOf(base_ref) = start.commit

\* C29: when the loop aborted with an error, bot returns that error whether
\* or not the final checkout of the base reference succeeded; when the loop
\* ended without error, bot returns Ok exactly when the final checkout
\* succeeded.
C29_LoopErrorIsReturned ==
    (pc = "done" /\ base_ref # NoRef) =>
        IF ~result.ok
        THEN ret = result
        ELSE ret.ok <=> trace[Len(trace)].ok

\* ------------------------------- properties of rendering with short revisions

\* The commits of the rev lists of msg.
RenderedCommits ==
    UNION { { msg[k][2].rev_list[j] : j \in 1..Len(msg[k][2].rev_list) } :
              k \in 1..Len(msg) }

\* The revision as the claim has it abbreviated: its first 7 characters, all
\* of it when it is shorter.
ShortOrWhole(revision) ==
    IF Len(revision) < 7 THEN revision ELSE SubSeq(revision, 1, 7)

\* C28: to_string and body return text for every commit message, one whose
\* rev list holds a commit with a revision shorter than 7 characters or with
\* an empty message included, and each commit's line shows the first 7
\* characters of its revision, or all of a shorter one.
C28_RenderingNeverAborts ==
    Rendered =>
        /\ rendered # Panicked
        /\ \A c \in RenderedCommits :
              \E line \in { Lines(rendered)[k] : k \in 1..Len(Lines(rendered)) } :
                  \E indent \in {2, 4} :
                      line = Repeat(" ", indent) \o ShortOrWhole(c.revision)
                             \o <<" ">> \o MessageSummary(c)

\* ------------------------------------------------ properties of the forges

\* open_pull_request has returned.
ForgeDone == forge.pc = "done"

\* The requests open_pull_request made that ended as `outcome`.
ForgeRequests(outcome) ==
    { k \in 1..Len(forge.requests) : forge.requests[k].outcome = outcome }

\* C30 as stated: open_pull_request returns an error only if the forge made
\* no pull request; whenever it made one, its URL is returned, a failed
\* label request included.
C30_ErrorOnlyIfNotCreated ==
    ForgeDone =>
        /\ ~forge.ret.ok => forge.pulls = {}
        /\ \A pr \in forge.pulls : forge.ret.ok /\ forge.ret.url = pr.html_url

\* C30: open_pull_request returns the URL of the pull request exactly when
\* all of its three requests succeeded (repository, pull request, labels);
\* a failure of any of them is returned as an error, so a label request that
\* fails, or a response that cannot be decoded, returns an error although
\* the forge made the pull request; it returns an error without a pull
\* request existing when the first or the second request was not accepted.
C30_UrlOnlyIfEveryRequestSucceeded ==
    ForgeDone =>
        /\ forge.ret.ok <=>
              /\ Len(forge.requests) = 3
              /\ ForgeRequests("ok") = 1..3
        /\ forge.ret.ok =>
              /\ forge.pulls = {[head |-> forge.branch,
                                 title |-> <<"lon: update ", forge.name>>,
                                 html_url |-> forge.ret.url]}
        /\ (~forge.ret.ok /\ forge.pulls # {}) =>
              \/ forge.requests[Len(forge.requests)].op = "add_labels"
              \/ forge.requests[Len(forge.requests)] =
                    [op |-> "pulls", outcome |-> "bad_json"]
        /\ (~forge.ret.ok /\ forge.pulls = {}) =>
              /\ Len(forge.requests) <= 2
              /\ \/ forge.requests[Len(forge.requests)].op = "get_repository"
                 \/ ~Accepted(forge.requests[Len(forge.requests)].outcome)
        /\ Cardinality(forge.pulls) <= 1

\* C30 witness: the Forgejo instance made the pull request, the label
\* request was refused, and open_pull_request returned an error.
C30_Witness ==
    /\ ForgeDone
    /\ forge.kind = "Forgejo"
    /\ forge.pulls # {}
    /\ forge.requests[Len(forge.requests)] =
          [op |-> "add_labels", outcome |-> "status_error"]
    /\ ~forge.ret.ok

\* ------------------------------------------- properties of the update history

\* Whether the k-th commit of the returned list is the k-th newest upstream.
IsKthNewest(k) ==
    Abbrev(hist.revs[k].revision)
        = Abbrev(hist.upstream[Len(hist.upstream) - k + 1].revision)

\* C23: for a Git and for a GitHub source, rev_list returns at most max_count
\* commits, and when upstream has more than max_count commits after
\* old_revision up to new_revision, the commits returned are the max_count
\* most recent ones, the most recent first.
C23_NewestFirstAtMostMaxCount ==
    (hist.pc = "done" /\ hist.ok) =>
        /\ Len(hist.revs) <= hist.max_count
        /\ Len(hist.upstream) > hist.max_count =>
              /\ Len(hist.revs) = hist.max_count
              /\ \A k \in 1..Len(hist.revs) : IsKthNewest(k)

\* The same for a Git source alone.
HistGitNewestFirst ==
    hist.pc = "idle" \/ hist.kind = "Git" => C23_NewestFirstAtMostMaxCount

\* A Git source's list of a longer history has been returned.
HistGitTruncated ==
    /\ hist.pc = "done"
    /\ hist.ok
    /\ hist.kind = "Git"
    /\ Len(hist.upstream) > hist.max_count
    /\ Len(hist.revs) = hist.max_count

====
